---- MODULE Spec2Model ----
(***************************************************************************)
(* A model of The Healing Mic podcast client (src/src/vanilla/app.js; the  *)
(* same file, complete with the Show and Favourites views, is              *)
(* src/unnamed/part_003): the favourites store, the progress tracker, the  *)
(* global audio player and the persisted records they share.               *)
(*                                                                         *)
(* Three specifications share the variables:                               *)
(*   SpecFav   the favourites store and the views that toggle it           *)
(*   SpecProg  the progress tracker's exported functions, any arguments    *)
(*   Spec      the player controller of one tab, its storage, reloads      *)
(*             and a second tab writing the shared durable store           *)
(* Each one keeps the variables of the others at their initial values.     *)
(***************************************************************************)
EXTENDS Integers, Sequences, FiniteSets, TLC

(***************************************************************************)
(* Bounds of the model                                                     *)
(***************************************************************************)
\* Date.now() runs over 0..MaxClock
MaxClock == 2
\* media positions and durations run over 0..MaxTime (seconds)
MaxTime == 2
\* async continuations (play promises, show fetches) in flight at once
MaxPending == 1

(***************************************************************************)
(* JavaScript values that are not numbers, as they occur in number slots   *)
(***************************************************************************)
\* NaN (typeof NaN === "number")
NaNVal == -1
\* undefined (an argument or property that is absent)
UndefVal == -2
\* null (what JSON.stringify writes for NaN)
NullVal == -3

(***************************************************************************)
(* Persisted records.  A stored value is the raw string of one storage key *)
(* seen through JSON.parse: absent (getItem gives null), corrupt (parse    *)
(* throws), parsed to a value of the wrong shape (a number, a string, null; *)
(* for the progress map also an array, which passes the typeof "object"    *)
(* test), or parsed to a value.                                            *)
(***************************************************************************)
Absent(dflt) == [kind |-> "absent", val |-> dflt]
Corrupt(dflt) == [kind |-> "corrupt", val |-> dflt]
Misshapen(dflt) == [kind |-> "misshapen", val |-> dflt]
ArrayValue(dflt) == [kind |-> "array", val |-> dflt]
Json(v) == [kind |-> "json", val |-> v]

VARIABLES
    \* localStorage / sessionStorage
    lsFavs,       \* earbuzz:favs:v1
    lsProg,       \* earbuzz:progress:v1
    lsTrack,      \* earbuzz:lastTrack:v1 (localStorage)
    ssTrack,      \* earbuzz:lastTrack:v1 (sessionStorage of this tab)
    lsState,      \* earbuzz:lastTrackState:v1
    \* environment
    now,          \* Date.now()
    \* Favourites view (renderFavourites closure)
    view,         \* the page shown: "home", "show", "favourites"
    favsView,     \* `favs`, the closure's copy of the list
    favSort,      \* favSort.value
    favFilter,    \* favShowFilter.value
    favGroups,    \* the groups rendered into #favContainer
    \* the page and its player (mountPlayer closure)
    mounted,      \* window.__earbuzzPlayerMounted
    domReady,     \* the core player elements are in the document
    nBound,       \* how many times the player's listeners were bound
    current,      \* `current`, the controller's track
    audioSrc,     \* audio.src
    audioPaused,  \* audio.paused
    audioTime,    \* audio.currentTime
    audioDur,     \* audio.duration (0 stands for NaN: not known yet)
    audioErr,     \* audio.error is set: the source failed to load
    playBtn,      \* playBtn.textContent
    nowTitle,     \* nowTitle.textContent
    nowSub,       \* nowSub.textContent
    plays,        \* audio.play() promises not settled yet, oldest first
    fetches,      \* fetchShowById calls of the play handler not settled yet
    \* Home view (renderHome closure)
    api,          \* what GET / of the podcast API answers with
    homeFetch,    \* the fetchPreviews call of renderHome
    genreSel,     \* genreFilter.value
    sortSel,      \* sortSelect.value
    carousel,     \* the content of #carousel
    grid,         \* the content of #grid
    \* theme (initTheme)
    lsTheme,      \* earbuzz:theme
    dark,         \* <html> carries the class "dark"
    themeText,    \* themeToggle.textContent
    themeBound,   \* themeToggle.dataset.themeBound is "1"
    themeListeners, \* click listeners on #themeToggle
    \* history (not program state)
    lastOp,       \* the handler that ran last
    favHist,      \* the run of consecutive toggles of one item
    call,         \* the arguments of the last call into the progress tracker
    hist,         \* what the player's run has seen, for the claims
    asked,        \* the track of the play request issued last
    themeHist     \* what the theme has seen since the page was loaded

favVars == <<lsFavs, now, view, favsView, favHist>>
storeVars == <<lsProg, lsTrack, ssTrack, lsState>>
pageVars == <<mounted, domReady, nBound>>
audioVars == <<audioSrc, audioPaused, audioTime, audioDur, audioErr>>
uiVars == <<playBtn, nowTitle, nowSub>>
playerVars == <<pageVars, current, audioVars, uiVars, plays, fetches, hist>>
histVars == <<favHist, call>>
homeVars == <<api, homeFetch, genreSel, sortSel, carousel, grid>>
favViewVars == <<favSort, favFilter, favGroups>>
themeVars == <<lsTheme, dark, themeText, themeBound, themeListeners, themeHist>>
\* what the handlers of the player, of the favourites views, of the progress
\* tracker and of the Home view leave alone
offViews == <<favVars, call, homeVars, favViewVars, themeVars>>
offPlayer == <<offViews, asked>>
offFav == <<storeVars, playerVars, call, homeVars, themeVars, asked>>
offProg == <<favVars, playerVars, homeVars, favViewVars, themeVars, asked>>
offHome == <<storeVars, playerVars, call, favViewVars, themeVars, asked>>
offTheme == <<lsFavs, now, favsView, favHist, storeVars, playerVars, call,
              homeVars, favViewVars, asked>>
vars == <<lsFavs, lsProg, lsTrack, ssTrack, lsState, now, view, favsView,
          mounted, domReady, nBound, current, audioSrc, audioPaused,
          audioTime, audioDur, audioErr, playBtn, nowTitle, nowSub, plays, fetches,
          favSort, favFilter, favGroups,
          api, homeFetch, genreSel, sortSel, carousel, grid,
          lsTheme, dark, themeText, themeBound, themeListeners,
          lastOp, favHist, call, hist, themeHist, asked>>

(***************************************************************************)
(* The remote catalogue: what fetchShowById(id) returns for each show id   *)
(* of the model (a string absent from the JSON is written "")              *)
(***************************************************************************)
CatalogIds == {"1", "2", "3", "4"}

Catalog ==
    [id \in CatalogIds |->
        CASE id = "1" ->
               [id |-> "1", title |-> "A",
                seasons |-> << [season |-> 1, episodes |->
                                  << [episode |-> 1, title |-> "e1", file |-> "u1"] >>],
                               [season |-> 2, episodes |->
                                  << [episode |-> 1, title |-> "", file |-> "u2"] >>] >>]
          [] id = "2" ->
               [id |-> "2", title |-> "B",
                seasons |-> << [season |-> 1, episodes |->
                                  << [episode |-> 1, title |-> "e1", file |-> ""] >>] >>]
          [] id = "3" ->
               [id |-> "3", title |-> "C", seasons |-> << >>]
          [] OTHER ->
               [id |-> "4", title |-> "D",
                seasons |-> << [season |-> 1, episodes |-> << >>] >>]]

\* the episode rows the Show view can render: (show, index of the season in
\* show.seasons, index of the episode in season.episodes)
ShowRows ==
    UNION {UNION {{<<id, i, j>> :
                      j \in 1..Len(Catalog[id].seasons[i].episodes)} :
                  i \in 1..Len(Catalog[id].seasons)} :
           id \in CatalogIds}

RowSeason(r) == Catalog[r[1]].seasons[r[2]]
RowEpisode(r) == RowSeason(r).episodes[r[3]]

\* the shows whose hearts the Home and Show views of the model offer
ShowIds == {"1", "2"}

(***************************************************************************)
(* FAVOURITES STORAGE                                                      *)
(***************************************************************************)
\* "show:<id>" (renderCarousel / renderGrid)
ShowFavId(show) == "show:" \o show

\* "<showId>:<season>:<episode>" (renderSeason, delegated play handler)
EpisodeId(show, s, e) ==
    show \o ":" \o ToString(s) \o ":" \o ToString(e)

\* ep.title || `Episode ${ep.episode}`
EpisodeTitle(ep) ==
    IF ep.title # "" THEN ep.title ELSE "Episode " \o ToString(ep.episode)

\* ep.file || ep.audioUrl || "", written as the string "undefined" when absent
AudioOfStringified(ep) == IF ep.file # "" THEN ep.file ELSE "undefined"

\* ep.file || ep.audioUrl || ""
AudioOf(ep) == ep.file

\* the item a Home card's heart passes to toggleFav (no addedAt, no audio)
HomeFavItem(show) ==
    [id |-> ShowFavId(show), title |-> Catalog[show].title, showId |-> show,
     showTitle |-> Catalog[show].title, season |-> 0, episode |-> 0,
     audio |-> "", addedAt |-> UndefVal]

\* the item an episode row's heart passes to toggleFav (no addedAt)
ShowFavItem(show, season, ep) ==
    [id |-> EpisodeId(show, season.season, ep.episode),
     title |-> EpisodeTitle(ep), showId |-> show,
     showTitle |-> Catalog[show].title, season |-> season.season,
     episode |-> ep.episode, audio |-> AudioOf(ep), addedAt |-> UndefVal]

readFavs == IF lsFavs.kind = "json" THEN lsFavs.val ELSE <<>>

loadFavs == readFavs

findIndex(list, id) ==
    IF \E i \in 1..Len(list) : list[i].id = id
    THEN CHOOSE i \in 1..Len(list) :
            /\ list[i].id = id
            /\ \A j \in 1..(i - 1) : list[j].id # id
    ELSE 0

isFavedIn(list, id) == \E i \in 1..Len(list) : list[i].id = id

isFaved(id) == isFavedIn(readFavs, id)

\* list.splice(i, 1)
splice1(list, i) == SubSeq(list, 1, i - 1) \o SubSeq(list, i + 1, Len(list))

\* { ...item, addedAt: item.addedAt ?? Date.now() }
withAddedAt(item, t) ==
    [item EXCEPT !.addedAt = IF item.addedAt = UndefVal THEN t ELSE item.addedAt]

\* a toggle that always appends
toggleFavAlwaysPush(list, item, t) == Append(list, withAddedAt(item, t))

\* a toggle that re-inserts the passed item where the stored one was
toggleFavInPlace(list, item, t) ==
    LET i == findIndex(list, item.id) IN
    IF i > 0 THEN splice1(list, i) ELSE <<withAddedAt(item, t)>> \o list

\* the list toggleFav writes and returns
toggleFav(list, item, t) ==
    LET i == findIndex(list, item.id) IN
    IF i > 0 THEN splice1(list, i) ELSE Append(list, withAddedAt(item, t))

NoHist == [n |-> 0, item |-> HomeFavItem("1"), before |-> <<>>]

\* history: the run of consecutive toggleFav(item) calls with one item
HistAfterToggle(item) ==
    IF favHist.n = 1 /\ favHist.item = item
    THEN [favHist EXCEPT !.n = 2]
    ELSE [n |-> 1, item |-> item, before |-> readFavs]

\* toggleFav(item) as a step: read, toggle, write
DoToggle(item) ==
    /\ lsFavs' = Json(toggleFav(readFavs, item, now))
    /\ favHist' = HistAfterToggle(item)

\* clearFavs()
clearFavs == Json(<<>>)

(***************************************************************************)
(* LISTENING PROGRESS                                                      *)
(* { [episodeId]: { t, finished?, duration? } }, a map over the episode    *)
(* ids of the model.  finished = FALSE stands for every falsy value (false *)
(* or an absent key: JSON.stringify drops `finished: undefined`).          *)
(***************************************************************************)
ProgIds ==
    {EpisodeId(r[1], RowSeason(r).season, RowEpisode(r).episode) : r \in ShowRows}

\* map[id] of an id with no entry: undefined, read as `{}` by `map[id] || {}`
NoEntry ==
    [has |-> FALSE, t |-> UndefVal, finished |-> FALSE, duration |-> UndefVal]

EmptyProg == [id \in ProgIds |-> NoEntry]

\* typeof x === "number" (NaN is a number)
isNumber(x) == x >= 0 \/ x = NaNVal

\* x ?? d
orElse(x, d) == IF x = UndefVal \/ x = NullVal THEN d ELSE x

\* JSON.stringify of a number slot: NaN is written as null
jsonNum(x) == IF x = NaNVal THEN NullVal ELSE x

readProg == IF lsProg.kind = "json" THEN lsProg.val ELSE EmptyProg

\* localStorage.setItem(PROG_KEY, JSON.stringify(map)), as read back; when
\* readProg returned an array, the entries set on it are not array elements
\* and JSON.stringify writes the array without them
writeProg(map) ==
    IF lsProg.kind = "array" THEN lsProg
    ELSE Json([id \in ProgIds |->
                 IF map[id].has
                 THEN [map[id] EXCEPT !.t = jsonNum(@), !.duration = jsonNum(@)]
                 ELSE NoEntry])

\* a save that takes the new finished flag as it comes
saveProgressNoOr(id, t, finished, duration) ==
    LET map == readProg
        prev == map[id]
    IN  writeProg([map EXCEPT ![id] =
            [has |-> TRUE, t |-> t, finished |-> finished,
             duration |-> IF isNumber(duration) THEN duration
                          ELSE orElse(prev.duration, 0)]])

\* a save that starts from an empty map instead of the stored one
saveProgressFresh(id, t, finished, duration) ==
    LET prev == readProg[id]
    IN  writeProg([EmptyProg EXCEPT ![id] =
            [has |-> TRUE, t |-> t, finished |-> finished \/ prev.finished,
             duration |-> IF isNumber(duration) THEN duration
                          ELSE orElse(prev.duration, 0)]])

\* the value saveProgress(id, t, finished, duration) leaves under PROG_KEY
saveProgress(id, t, finished, duration) ==
    LET map == readProg
        prev == map[id]
    IN  writeProg([map EXCEPT ![id] =
            [has |-> TRUE, t |-> t, finished |-> finished \/ prev.finished,
             duration |-> IF isNumber(duration) THEN duration
                          ELSE orElse(prev.duration, 0)]])

\* a load that hands out the stored position as it is
loadProgressNoDefault(id) ==
    IF id \in ProgIds THEN readProg[id].t ELSE UndefVal

\* loadProgress(id): entry?.t ?? 0
loadProgress(id) ==
    IF id \in ProgIds THEN orElse(readProg[id].t, 0) ELSE 0

\* a markFinished that leaves the finished flag as it was
markFinishedKeepsFlag(id, duration) ==
    LET map == readProg
        prev == map[id]
    IN  writeProg([map EXCEPT ![id] =
            [has |-> TRUE,
             t |-> orElse(prev.t, IF isNumber(duration) THEN duration ELSE 0),
             finished |-> prev.finished,
             duration |-> IF isNumber(duration) THEN duration
                          ELSE orElse(prev.duration, 0)]])

\* the value markFinished(id, duration) leaves under PROG_KEY
markFinished(id, duration) ==
    LET map == readProg
        prev == map[id]
    IN  writeProg([map EXCEPT ![id] =
            [has |-> TRUE,
             t |-> orElse(prev.t, IF isNumber(duration) THEN duration ELSE 0),
             finished |-> TRUE,
             duration |-> IF isNumber(duration) THEN duration
                          ELSE orElse(prev.duration, 0)]])

NoCall == [id |-> "", t |-> 0, finished |-> FALSE, duration |-> 0]

\* getProgress(id): map[id] || null (NoEntry stands for null)
getProgress(id) == IF id \in ProgIds THEN readProg[id] ELSE NoEntry

\* the scale of a percentage
Percent == 100

\* Math.round(n / d) for n >= 0 and d > 0: halves round up
round(n, d) == (2 * n + d) \div (2 * d)

\* the pills renderProgressPill can return: none, "Finished", "In progress"
\* and "In progress • pct%"
NoPill == [label |-> "", pct |-> NullVal]
FinishedPill == [label |-> "Finished", pct |-> NullVal]
PlainPill == [label |-> "In progress", pct |-> NullVal]
PctPill(pct) == [label |-> "In progress", pct |-> pct]

\* renderProgressPill(id); null >= 0 holds in JavaScript, and null / d is 0
renderProgressPill(id) ==
    LET p == getProgress(id)
        t == IF p.t = NullVal THEN 0 ELSE p.t
    IN  IF ~p.has THEN NoPill
        ELSE IF p.finished THEN FinishedPill
        ELSE IF p.duration > 0 /\ t >= 0
        THEN LET pct == round(t * Percent, p.duration)
             IN  IF pct >= 0 /\ pct <= Percent THEN PctPill(pct) ELSE PlainPill
        ELSE PlainPill

(***************************************************************************)
(* GLOBAL AUDIO PLAYER: data                                               *)
(***************************************************************************)
\* `current = null`, and the value JSON.parse gives for no usable record
NoTrack == [id |-> "", title |-> "", subtitle |-> "", src |-> ""]

\* a stored LastTrack that lacks its src
IncompleteTrack == [id |-> "1:1:1", title |-> "x", subtitle |-> "", src |-> ""]
NoIdTrack == [id |-> "", title |-> "x", subtitle |-> "", src |-> "u1"]

\* playBtn.textContent: the play triangle and the pause bars
PlayIcon == "|>"
PauseIcon == "||"

\* PlayerShell's markup before mountPlayer touches it
InitialTitle == "No episode selected"
InitialSub == "The Healing Mic"

\* the duration of every medium of the model, known once its metadata loaded
Duration(src) == MaxTime

\* clearAllProgress() that leaves the session copy of the last track
clearAllProgressKeepsSession ==
    /\ lsProg' = Absent(EmptyProg)
    /\ lsTrack' = Absent(NoTrack)
    /\ lsState' = "absent"
    /\ ssTrack' = ssTrack

\* clearAllProgress()
clearAllProgress ==
    /\ lsProg' = Absent(EmptyProg)
    /\ lsTrack' = Absent(NoTrack)
    /\ lsState' = "absent"
    /\ ssTrack' = Absent(NoTrack)

(***************************************************************************)
(* The play affordances: btn.dataset of an `.action.play` button, an       *)
(* attribute that is absent or empty written ""                            *)
(***************************************************************************)
NoDataset ==
    [episodeId |-> "", audioUrl |-> "", showId |-> "", title |-> "",
     subtitle |-> ""]

\* an episode row whose data-episode-id swaps season and episode
EpisodeRowDatasetSwapped(show, season, ep) ==
    [episodeId |-> EpisodeId(show.id, ep.episode, season.season),
     audioUrl |-> AudioOf(ep),
     showId |-> "",
     title |-> "S" \o ToString(season.season) \o "E" \o ToString(ep.episode)
                \o " - " \o EpisodeTitle(ep),
     subtitle |-> show.title]

\* the play button of an episode row of the Show view (renderSeason)
EpisodeRowDataset(show, season, ep) ==
    [episodeId |-> EpisodeId(show.id, season.season, ep.episode),
     audioUrl |-> AudioOf(ep),
     showId |-> "",
     title |-> "S" \o ToString(season.season) \o "E" \o ToString(ep.episode)
                \o " - " \o EpisodeTitle(ep),
     subtitle |-> show.title]

\* the play button of a row of the Favourites view (render)
FavRowDataset(f) ==
    IF f.season > 0 /\ f.episode > 0
    THEN [episodeId |-> f.id, audioUrl |-> f.audio, showId |-> "",
          title |-> f.showTitle \o " - " \o f.title, subtitle |-> f.showTitle]
    ELSE [NoDataset EXCEPT !.showId = f.showId]

\* the favourites whose rows the Favourites view of the player's tab shows:
\* one show-level favourite per show of the catalogue
PlayerFavs == {HomeFavItem(id) : id \in CatalogIds}

\* the track the handler builds from a button with an audio URL
\* (btn.dataset.id and the temp id are not reached: every button of the
\* views carries data-episode-id)
DirectTrack(ds) ==
    [id |-> ds.episodeId,
     title |-> IF ds.title # "" THEN ds.title ELSE "Now Playing",
     subtitle |-> ds.subtitle,
     src |-> ds.audioUrl]

\* the first-episode resolution that takes the file as a template string
ShowTrackStringified(show) ==
    IF Len(show.seasons) = 0 \/ Len(show.seasons[1].episodes) = 0
    THEN NoTrack
    ELSE LET firstSeason == show.seasons[1]
             firstEp == firstSeason.episodes[1]
         IN  [id |-> EpisodeId(show.id, firstSeason.season, firstEp.episode),
              title |-> "S" \o ToString(firstSeason.season) \o "E"
                          \o ToString(firstEp.episode) \o " - "
                          \o (IF firstEp.title # "" THEN firstEp.title
                              ELSE show.title),
              subtitle |-> show.title,
              src |-> AudioOfStringified(firstEp)]

\* the track the handler builds from a fetched show: its first season's first
\* episode; NoTrack when a `return` drops the request
ShowTrack(show) ==
    IF Len(show.seasons) = 0 \/ Len(show.seasons[1].episodes) = 0
    THEN NoTrack
    ELSE LET firstSeason == show.seasons[1]
             firstEp == firstSeason.episodes[1]
         IN  IF AudioOf(firstEp) = ""
             THEN NoTrack
             ELSE [id |-> EpisodeId(show.id, firstSeason.season, firstEp.episode),
                   title |-> "S" \o ToString(firstSeason.season) \o "E"
                               \o ToString(firstEp.episode) \o " - "
                               \o (IF firstEp.title # "" THEN firstEp.title
                                   ELSE show.title),
                   subtitle |-> show.title,
                   src |-> AudioOf(firstEp)]

(***************************************************************************)
(* GLOBAL AUDIO PLAYER: mountPlayer and the handlers it binds              *)
(*                                                                         *)
(* audio.play() is the browser's: a call that is not allowed (autoplay     *)
(* policy) or meets a failed source returns a rejected promise and leaves  *)
(* audio.paused alone; otherwise it clears audio.paused and its promise    *)
(* stays pending until playback starts (resolved), the source fails to     *)
(* load (rejected) or pause() / a new src aborts it (rejected).  The       *)
(* continuation of a settled promise runs before any other event.          *)
(***************************************************************************)
\* the code that waits on a play() promise, run on (playBtn, PlaybackState):
\* mount's .then/.catch, the toggle's await, setTrack's await
AfterPlay(by, ok, ui) ==
    CASE by = "mount" ->
            [ui EXCEPT !.btn = IF ok THEN PauseIcon ELSE PlayIcon]
      [] by = "toggle" ->
            IF ok THEN [btn |-> PauseIcon, st |-> "playing"] ELSE ui
      [] OTHER ->
            IF ok THEN [btn |-> PauseIcon, st |-> "playing"]
            ELSE [btn |-> PlayIcon, st |-> "paused"]

RECURSIVE SettleAll(_, _, _)
\* every pending promise settles the same way, oldest first
SettleAll(ps, ok, ui) ==
    IF ps = <<>> THEN ui
    ELSE SettleAll(Tail(ps), ok, AfterPlay(Head(ps).by, ok, ui))

\* playback is advancing
Playing ==
    /\ audioSrc # ""
    /\ ~audioPaused
    /\ ~audioErr
    /\ audioDur # 0
    /\ plays = <<>>

\* a guard that never finds the player mounted
AlreadyMountedNever == FALSE

\* if (window.__earbuzzPlayerMounted) return;
AlreadyMounted == mounted

\* the restore that reads the durable copy first
RawTrackDurableFirst == IF lsTrack.kind # "absent" THEN lsTrack ELSE ssTrack

\* sessionStorage.getItem(LAST_TRACK_KEY) || localStorage.getItem(LAST_TRACK_KEY)
RawTrack == IF ssTrack.kind # "absent" THEN ssTrack ELSE lsTrack

\* a resume whatever the stored state
LastStateAlwaysPlaying == "playing"

\* rawState === "playing" ? "playing" : "paused"
LastState == IF lsState = "playing" THEN "playing" ELSE "paused"

\* a restore that asks for no src
RestorableWithoutSrc(raw) == raw.kind = "json" /\ raw.val.id # ""

\* last && last.id && last.src, with JSON.parse not throwing
Restorable(raw) == raw.kind = "json" /\ raw.val.id # "" /\ raw.val.src # ""

\* if (!isNaN(t) && t > 0) audio.currentTime = t, on a source just set
SeekTo(t) == IF t > 0 THEN t ELSE 0

\* a setTrack that loads the new source and leaves `current` as it was
SetTrackKeepsCurrent(track, allowed) ==
    IF track.src = ""
    THEN UNCHANGED <<current, audioVars, uiVars, lsTrack, ssTrack, lsState,
                     plays, hist>>
    ELSE LET \* the new src aborts the pending play() calls
             ui1 == SettleAll(plays, FALSE, [btn |-> playBtn, st |-> lsState])
             ui2 == AfterPlay("setTrack", FALSE, ui1)
         IN  /\ current' = current
             /\ audioSrc' = track.src
             /\ nowTitle' = (IF track.title # "" THEN track.title ELSE "Now Playing")
             /\ nowSub' = track.subtitle
             /\ ssTrack' = Json(track)
             /\ lsTrack' = Json(track)
             /\ audioTime' = SeekTo(loadProgress(track.id))
             /\ audioDur' = 0
             /\ audioErr' = FALSE
             /\ hist' = [cleared |-> FALSE, mine |-> track]
             /\ IF allowed
                THEN /\ audioPaused' = FALSE
                     /\ plays' = <<[by |-> "setTrack"]>>
                     /\ playBtn' = ui1.btn
                     /\ lsState' = ui1.st
                ELSE /\ audioPaused' = TRUE
                     /\ plays' = <<>>
                     /\ playBtn' = ui2.btn
                     /\ lsState' = ui2.st

\* setTrack(track), up to and including the outcome of its play() call when
\* that is immediate; `allowed` is the browser's answer to play()
SetTrack(track, allowed) ==
    IF track.src = ""
    THEN UNCHANGED <<current, audioVars, uiVars, lsTrack, ssTrack, lsState,
                     plays, hist>>
    ELSE LET \* the new src aborts the pending play() calls
             ui1 == SettleAll(plays, FALSE, [btn |-> playBtn, st |-> lsState])
             ui2 == AfterPlay("setTrack", FALSE, ui1)
         IN  /\ current' = track
             /\ audioSrc' = track.src
             /\ nowTitle' = (IF track.title # "" THEN track.title ELSE "Now Playing")
             /\ nowSub' = track.subtitle
             /\ ssTrack' = Json(track)
             /\ lsTrack' = Json(track)
             /\ audioTime' = SeekTo(loadProgress(track.id))
             /\ audioDur' = 0
             /\ audioErr' = FALSE
             /\ hist' = [cleared |-> FALSE, mine |-> track]
             /\ IF allowed
                THEN /\ audioPaused' = FALSE
                     /\ plays' = <<[by |-> "setTrack"]>>
                     /\ playBtn' = ui1.btn
                     /\ lsState' = ui1.st
                ELSE /\ audioPaused' = TRUE
                     /\ plays' = <<>>
                     /\ playBtn' = ui2.btn
                     /\ lsState' = ui2.st

\* mountPlayer(), called by the effect of every page
MountPlayer ==
    /\ lastOp' = "mount"
    /\ UNCHANGED <<lsProg, lsTrack, ssTrack, lsState, domReady, fetches, hist>>
    /\ IF AlreadyMounted
       THEN UNCHANGED <<mounted, nBound, current, audioVars, uiVars, plays>>
       ELSE /\ mounted' = TRUE
            /\ IF ~domReady
               THEN UNCHANGED <<nBound, current, audioVars, uiVars, plays>>
               ELSE /\ nBound' = nBound + 1
                    /\ UNCHANGED <<audioDur, audioErr>>
                    /\ IF Restorable(RawTrack)
                       THEN LET last == RawTrack.val IN
                            /\ current' = last
                            /\ audioSrc' = last.src
                            /\ audioTime' = SeekTo(loadProgress(last.id))
                            /\ nowTitle' = (IF last.title # "" THEN last.title
                                            ELSE "Now Playing")
                            /\ nowSub' = last.subtitle
                            /\ IF LastState = "playing"
                               THEN \E allowed \in BOOLEAN :
                                      IF allowed
                                      THEN /\ audioPaused' = FALSE
                                           /\ plays' = <<[by |-> "mount"]>>
                                           /\ playBtn' = playBtn
                                      ELSE /\ audioPaused' = audioPaused
                                           /\ plays' = plays
                                           /\ playBtn' = PlayIcon
                               ELSE /\ playBtn' = PlayIcon
                                    /\ UNCHANGED <<audioPaused, plays>>
                       ELSE UNCHANGED <<current, audioSrc, audioPaused,
                                        audioTime, uiVars, plays>>

\* click on #playToggle while paused: await audio.play()
TogglePlay(allowed) ==
    /\ nBound > 0
    /\ audioSrc # ""
    /\ audioPaused
    /\ lastOp' = "togglePlay"
    /\ IF allowed /\ ~audioErr
       THEN /\ audioPaused' = FALSE
            /\ plays' = Append(plays, [by |-> "toggle"])
            \* play() on media that ended starts again from 0
            /\ audioTime' = IF audioDur # 0 /\ audioTime = audioDur THEN 0
                            ELSE audioTime
       ELSE UNCHANGED <<audioPaused, plays, audioTime>>
    /\ UNCHANGED <<storeVars, pageVars, current, audioSrc, audioDur, audioErr,
                   uiVars, fetches, hist>>

\* click on #playToggle while not paused: audio.pause()
TogglePause ==
    /\ nBound > 0
    /\ audioSrc # ""
    /\ ~audioPaused
    /\ lastOp' = "togglePause"
    /\ audioPaused' = TRUE
    /\ plays' = <<>>
    /\ LET ui == SettleAll(plays, FALSE, [btn |-> PlayIcon, st |-> "paused"]) IN
       /\ playBtn' = ui.btn
       /\ lsState' = ui.st
    /\ UNCHANGED <<lsProg, lsTrack, ssTrack, pageVars, current, audioSrc,
                   audioTime, audioDur, audioErr, nowTitle, nowSub, fetches, hist>>

\* click on #playToggle with no source: if (!audio.src) return
ToggleNoSrc ==
    /\ nBound > 0
    /\ audioSrc = ""
    /\ lastOp' = "toggleNoSrc"
    /\ UNCHANGED <<storeVars, playerVars>>

\* the browser learns the duration of the source (no handler is bound)
LoadedMetadata ==
    /\ audioSrc # ""
    /\ audioDur = 0
    /\ ~audioErr
    /\ audioDur' = Duration(audioSrc)
    /\ audioTime' = IF audioTime > Duration(audioSrc) THEN Duration(audioSrc)
                    ELSE audioTime
    /\ lastOp' = "metadata"
    /\ UNCHANGED <<storeVars, pageVars, current, audioSrc, audioPaused, audioErr,
                   uiVars, plays, fetches, hist>>

\* the source fails to load: the pending play() calls are rejected
LoadFails ==
    /\ audioSrc # ""
    /\ audioDur = 0
    /\ ~audioErr
    /\ audioErr' = TRUE
    /\ plays' = <<>>
    /\ LET ui == SettleAll(plays, FALSE, [btn |-> playBtn, st |-> lsState]) IN
       /\ playBtn' = ui.btn
       /\ lsState' = ui.st
    /\ lastOp' = IF plays = <<>> THEN "loadFails"
                  ELSE "failed:" \o Head(plays).by
    /\ UNCHANGED <<lsProg, lsTrack, ssTrack, pageVars, current, audioSrc,
                   audioPaused, audioTime, audioDur, nowTitle, nowSub, fetches,
                   hist>>

\* playback starts: the pending play() calls are resolved
PlayStarts ==
    /\ plays # <<>>
    /\ audioDur # 0
    /\ plays' = <<>>
    /\ LET ui == SettleAll(plays, TRUE, [btn |-> playBtn, st |-> lsState]) IN
       /\ playBtn' = ui.btn
       /\ lsState' = ui.st
    /\ lastOp' = "started:" \o Head(plays).by
    /\ UNCHANGED <<lsProg, lsTrack, ssTrack, pageVars, current, audioVars,
                   nowTitle, nowSub, fetches, hist>>

\* the playback clock advances and fires timeupdate
TimeUpdate ==
    /\ nBound > 0
    /\ Playing
    /\ audioTime < audioDur
    /\ audioTime' = audioTime + 1
    /\ lsProg' = IF current.id # ""
                 THEN saveProgress(current.id, audioTime + 1, FALSE, audioDur)
                 ELSE lsProg
    /\ lastOp' = "timeupdate"
    /\ UNCHANGED <<lsTrack, ssTrack, lsState, pageVars, current, audioSrc,
                   audioPaused, audioDur, audioErr, uiVars, plays, fetches, hist>>

\* playback reaches the end of the media: the browser pauses and fires ended
Ended ==
    /\ nBound > 0
    /\ Playing
    /\ audioTime = audioDur
    /\ audioPaused' = TRUE
    /\ lsProg' = IF current.id # "" THEN markFinished(current.id, audioDur)
                 ELSE lsProg
    /\ playBtn' = PlayIcon
    /\ lsState' = "paused"
    /\ lastOp' = "ended"
    /\ UNCHANGED <<lsTrack, ssTrack, pageVars, current, audioSrc, audioTime,
                   audioDur, audioErr, nowTitle, nowSub, plays, fetches, hist>>

\* a beforeunload handler that writes nothing while the audio is paused
BeforeUnloadSilentWhenPaused ==
    IF ~audioPaused THEN [state |-> "playing", prompt |-> TRUE]
    ELSE [state |-> lsState, prompt |-> FALSE]

\* the beforeunload handler: the PlaybackState it stores, and whether it asks
\* for the confirmation prompt (preventDefault, returnValue, return msg)
BeforeUnload ==
    IF ~audioPaused THEN [state |-> "playing", prompt |-> TRUE]
    ELSE [state |-> "paused", prompt |-> FALSE]

\* beforeunload with the prompt shown, the user answering it by staying
UnloadStay ==
    /\ nBound > 0
    /\ BeforeUnload.prompt
    /\ lsState' = BeforeUnload.state
    /\ lastOp' = "unloadStay"
    /\ UNCHANGED <<lsProg, lsTrack, ssTrack, playerVars>>

\* the page is reloaded: beforeunload runs if bound, then the page, its
\* player and every continuation in flight are gone; storage stays
Reload ==
    /\ lsState' = IF nBound > 0 THEN BeforeUnload.state ELSE lsState
    /\ mounted' = FALSE
    /\ nBound' = 0
    /\ domReady' \in BOOLEAN
    /\ current' = NoTrack
    /\ audioSrc' = ""
    /\ audioPaused' = TRUE
    /\ audioTime' = 0
    /\ audioDur' = 0
    /\ audioErr' = FALSE
    /\ playBtn' = PlayIcon
    /\ nowTitle' = InitialTitle
    /\ nowSub' = InitialSub
    /\ plays' = <<>>
    /\ fetches' = <<>>
    /\ lastOp' = IF nBound > 0 /\ BeforeUnload.prompt THEN "reload:prompt"
                  ELSE "reload"
    /\ UNCHANGED <<lsProg, lsTrack, ssTrack, hist>>

\* the player's elements get into the document
DomAppears ==
    /\ ~domReady
    /\ domReady' = TRUE
    /\ lastOp' = "domAppears"
    /\ UNCHANGED <<storeVars, mounted, nBound, current, audioVars, uiVars,
                   plays, fetches, hist>>

\* the delegated click handler on an `.action.play` button with dataset ds,
\* up to its first await that does not settle at once; op names the button
PlayClick(ds, allowed, op) ==
    /\ nBound > 0
    /\ lastOp' = op
    /\ UNCHANGED <<lsProg, pageVars>>
    /\ IF ds.audioUrl # ""
       THEN \* CASE 1: the button carries an audio URL
            /\ SetTrack(DirectTrack(ds), allowed)
            /\ UNCHANGED fetches
       ELSE IF ds.showId # ""
       THEN \* CASE 2: only a show id; the handler awaits fetchShowById
            /\ Len(fetches) < MaxPending
            /\ fetches' = Append(fetches, ds.showId)
            /\ UNCHANGED <<lsTrack, ssTrack, lsState, current, audioVars,
                           uiVars, plays, hist>>
       ELSE \* neither: the handler falls through
            UNCHANGED <<lsTrack, ssTrack, lsState, current, audioVars, uiVars,
                        plays, fetches, hist>>

\* the name of the click on row r of the Show view
RowOp(r) == "row:" \o r[1] \o ":" \o ToString(r[2]) \o ":" \o ToString(r[3])

\* Play on episode row r of the Show view
ShowRowPlay(r, allowed) ==
    PlayClick(EpisodeRowDataset(Catalog[r[1]], RowSeason(r), RowEpisode(r)),
              allowed, RowOp(r))

\* Play on the row of favourite f of the Favourites view
FavRowPlay(f, allowed) ==
    PlayClick(FavRowDataset(f), allowed, "fav:" \o f.showId)

\* Play on a button that carries neither an audio URL nor a show id
BarePlay ==
    PlayClick(NoDataset, FALSE, "barePlay")

\* fetchShowById rejects: the handler's catch logs
FetchFails(i) ==
    /\ i \in 1..Len(fetches)
    /\ fetches' = splice1(fetches, i)
    /\ lastOp' = "fetchFails"
    /\ UNCHANGED <<storeVars, pageVars, current, audioVars, uiVars, plays, hist>>

\* fetchShowById resolves to a show with no first season, first episode or
\* audio: the handler warns and returns
FetchDrops(i) ==
    /\ i \in 1..Len(fetches)
    /\ ShowTrack(Catalog[fetches[i]]) = NoTrack
    /\ fetches' = splice1(fetches, i)
    /\ lastOp' = "fetchDrops"
    /\ UNCHANGED <<storeVars, pageVars, current, audioVars, uiVars, plays, hist>>

\* fetchShowById resolves to a show with a playable first episode
FetchPlays(i, allowed) ==
    /\ i \in 1..Len(fetches)
    /\ ShowTrack(Catalog[fetches[i]]) # NoTrack
    /\ fetches' = splice1(fetches, i)
    /\ SetTrack(ShowTrack(Catalog[fetches[i]]), allowed)
    /\ lastOp' = "fetchPlays"
    /\ UNCHANGED <<lsProg, pageVars>>

\* the Reset listening history button of the Favourites view, confirmed
ResetHistory ==
    /\ clearAllProgress
    /\ hist' = [cleared |-> TRUE, mine |-> NoTrack]
    /\ lastOp' = "clearAll"
    /\ UNCHANGED <<pageVars, current, audioVars, uiVars, plays, fetches>>

\* the tracks the episode rows with an audio URL lead to
DirectTracks ==
    {DirectTrack(EpisodeRowDataset(Catalog[r[1]], RowSeason(r), RowEpisode(r))) :
        r \in {x \in ShowRows : AudioOf(RowEpisode(x)) # ""}}

\* another tab of the same origin switches track: its setTrack writes the
\* shared localStorage (its sessionStorage is its own)
OtherTabSetTrack(track, st) ==
    /\ lsTrack' = Json(track)
    /\ lsState' = st
    /\ hist' = [hist EXCEPT !.cleared = FALSE]
    /\ lastOp' = "otherTabSetTrack"
    /\ UNCHANGED <<lsProg, ssTrack, pageVars, current, audioVars, uiVars,
                   plays, fetches>>

(***************************************************************************)
(* HOME VIEW (renderHome)                                                  *)
(***************************************************************************)
\* previews in one answer of the API, and the range 0..MaxStamp of their
\* `updated` timestamps
MaxPreviews == 2
MaxStamp == 2

\* the keys of GENRES
GenreIds == 1..9

\* the values of the options of #genreFilter: the markup's "All Genres" and
\* one option per key of GENRES
AllGenres == "All Genres"
GenreOptions == {AllGenres} \cup {ToString(n) : n \in GenreIds}

\* Number(g) for the value of a GENRES option
GenreNumber(g) == CHOOSE n \in GenreIds : ToString(n) = g

\* the ids of the previews, in the order of the API's answer
PreviewIds == <<"1", "2", "3">>

\* the genres arrays the previews of the model carry
GenreSets == {{}, {3}, {1, 3}}

\* the answers of GET /: up to MaxPreviews previews
Previews(n) ==
    [1..n -> [updated : 0..MaxStamp, genres : GenreSets]]

ApiAnswers ==
    UNION {{[i \in 1..n |-> [id |-> PreviewIds[i], updated |-> f[i].updated,
                              genres |-> f[i].genres]] : f \in Previews(n)} :
           n \in 0..MaxPreviews}

\* the content of #carousel or #grid: the markup's empty element, the
\* loading spinner, the error paragraph, or cards (show id and heart "on")
Empty == [status |-> "empty", cards |-> <<>>]
Loading == [status |-> "loading", cards |-> <<>>]
Failed == [status |-> "error", cards |-> <<>>]
Cards(cs) == [status |-> "list", cards |-> cs]

\* a comparator that sorts newest first whatever is selected
compareNewestOnly(s, a, b) == b.updated - a.updated

\* the comparator applyFilters passes to list.sort for sort selection s
compare(s, a, b) ==
    IF s = "oldest" THEN a.updated - b.updated ELSE b.updated - a.updated

\* Array.prototype.sort is stable: x goes after the elements it does not
\* sort before
RECURSIVE insert(_, _, _)
insert(x, sorted, s) ==
    IF sorted = <<>> THEN <<x>>
    ELSE IF compare(s, x, Head(sorted)) < 0 THEN <<x>> \o sorted
    ELSE <<Head(sorted)>> \o insert(x, Tail(sorted), s)

RECURSIVE sort(_, _)
sort(list, s) ==
    IF list = <<>> THEN <<>>
    ELSE insert(list[Len(list)], sort(SubSeq(list, 1, Len(list) - 1), s), s)

\* list.filter((it) => it.genres?.includes(gid)), for genre selection g
filter(list, g) ==
    IF g = AllGenres THEN list
    ELSE SelectSeq(list, LAMBDA it : GenreNumber(g) \in it.genres)

\* the list applyFilters renders
filtered(items, g, s) == sort(filter(items, g), s)

\* list.slice(0, 10)
CarouselSize == 10
slice(list) ==
    SubSeq(list, 1, IF Len(list) < CarouselSize THEN Len(list) ELSE CarouselSize)

\* renderCarousel / renderGrid: one card per show, its heart "on" if the
\* stored favourites hold "show:<id>"
renderCards(list) ==
    Cards([i \in 1..Len(list) |->
              [id |-> list[i].id, on |-> isFaved(ShowFavId(list[i].id))]])

\* a page whose Home view has not been rendered
InitHomeIdle ==
    /\ api = <<>>
    /\ homeFetch = "idle"
    /\ genreSel = AllGenres
    /\ sortSel = "newest"
    /\ carousel = Empty
    /\ grid = Empty

(***************************************************************************)
(* FAVOURITES VIEW (renderFavourites)                                      *)
(***************************************************************************)
\* the options of #favSort and the value of the "All Shows" option of
\* #favShowFilter
FavSorts == {"newest", "oldest", "az", "za"}
AllShows == "__all"

\* the rank of the model's titles in the order of localeCompare
TitleRank(title) ==
    CASE title = "A" -> 1
      [] title = "B" -> 2
      [] title = "C" -> 3
      [] title = "D" -> 4
      [] title = "e1" -> 5
      [] OTHER -> 6

\* a.localeCompare(b)
localeCompare(a, b) == TitleRank(a) - TitleRank(b)

\* a comparator that takes every mode for "newest"
favCompareNewestOnly(mode, a, b) == b.addedAt - a.addedAt

\* the comparator render passes to list.sort for sort mode `mode`
favCompare(mode, a, b) ==
    CASE mode = "oldest" -> a.addedAt - b.addedAt
      [] mode = "az" -> localeCompare(a.title, b.title)
      [] mode = "za" -> localeCompare(b.title, a.title)
      [] OTHER -> b.addedAt - a.addedAt

RECURSIVE favInsert(_, _, _)
favInsert(x, sorted, mode) ==
    IF sorted = <<>> THEN <<x>>
    ELSE IF favCompare(mode, x, Head(sorted)) < 0 THEN <<x>> \o sorted
    ELSE <<Head(sorted)>> \o favInsert(x, Tail(sorted), mode)

RECURSIVE favSorted(_, _)
favSorted(list, mode) ==
    IF list = <<>> THEN <<>>
    ELSE favInsert(list[Len(list)],
                   favSorted(SubSeq(list, 1, Len(list) - 1), mode), mode)

\* list.filter((f) => f.showTitle === filter)
favFiltered(list, sel) ==
    IF sel = AllShows THEN list
    ELSE SelectSeq(list, LAMBDA f : f.showTitle = sel)

\* groups.get(f.showTitle).push(f), on a Map that keeps insertion order
addToGroup(groups, f) ==
    IF \E k \in 1..Len(groups) : groups[k].showTitle = f.showTitle
    THEN LET k == CHOOSE k \in 1..Len(groups) : groups[k].showTitle = f.showTitle
         IN  [groups EXCEPT ![k].items = Append(@, f.id)]
    ELSE Append(groups, [showTitle |-> f.showTitle, items |-> <<f.id>>])

RECURSIVE groupByShow(_)
groupByShow(list) ==
    IF list = <<>> THEN <<>>
    ELSE addToGroup(groupByShow(SubSeq(list, 1, Len(list) - 1)), list[Len(list)])

\* render(): one section per group, with its title, its displayed count and
\* its rows (no section, only the "No favourites yet" line, for no items)
render(favs, mode, sel) ==
    LET groups == groupByShow(favSorted(favFiltered(favs, sel), mode))
    IN  [k \in 1..Len(groups) |->
            [showTitle |-> groups[k].showTitle,
             count |-> Len(groups[k].items),
             items |-> groups[k].items]]

\* a page whose Favourites view is not rendered
InitFavViewIdle ==
    /\ favSort = "newest"
    /\ favFilter = AllShows
    /\ favGroups = <<>>

(***************************************************************************)
(* THEME (initTheme)                                                       *)
(***************************************************************************)
\* localStorage.getItem(THEME_KEY) of a key never written: null
NoItem == "null"

\* the label of the button as PlayerShell renders it, and the two labels
\* setTheme writes (the moon and the sun of the labels are left out)
ToDark == "Dark"
ToLight == "Light"

\* setTheme(mode): the class of <html>, the stored item, the label
setTheme(mode) ==
    [dark |-> mode = "dark",
     stored |-> mode,
     text |-> IF mode = "dark" THEN ToLight ELSE ToDark]

\* const saved = localStorage.getItem(THEME_KEY) || "light"
saved == IF lsTheme = NoItem \/ lsTheme = "" THEN "light" ELSE lsTheme

\* a button that never counts as bound
ThemeBoundNever == FALSE

\* btn.dataset.themeBound === "1"
ThemeBound == themeBound

\* the click listener of the button
onThemeClick(st) == setTheme(IF st.dark THEN "light" ELSE "dark")

\* a click runs every listener of the button, each on what the one before
\* left
RECURSIVE dispatchClick(_, _)
dispatchClick(n, st) ==
    IF n = 0 THEN st ELSE dispatchClick(n - 1, onThemeClick(st))

\* a document just loaded: no class on <html>, the button as rendered
FreshDocument ==
    /\ dark = FALSE
    /\ themeText = ToDark
    /\ themeBound = FALSE
    /\ themeListeners = 0

\* a page whose theme is left alone
InitThemeIdle ==
    /\ lsTheme = NoItem
    /\ FreshDocument
    /\ themeHist = [atLoad |-> NoItem, mounts |-> 0, clicks |-> 0]

InitStoreEmpty ==
    /\ lsProg = Absent(EmptyProg)
    /\ lsTrack = Absent(NoTrack)
    /\ ssTrack = Absent(NoTrack)
    /\ lsState = "absent"

\* a page just loaded, mountPlayer not called yet
InitPlayerIdle ==
    /\ mounted = FALSE
    /\ domReady = TRUE
    /\ nBound = 0
    /\ current = NoTrack
    /\ audioSrc = ""
    /\ audioPaused = TRUE
    /\ audioTime = 0
    /\ audioDur = 0
    /\ audioErr = FALSE
    /\ playBtn = PlayIcon
    /\ nowTitle = InitialTitle
    /\ nowSub = InitialSub
    /\ plays = <<>>
    /\ fetches = <<>>
    /\ hist = [cleared |-> FALSE, mine |-> NoTrack]
    /\ asked = NoTrack

\* what the storage of the origin holds when the tab opens: nothing, records
\* that do not parse, or a last track without src left with state "playing"
StoredAtStart ==
    { <<Absent(EmptyProg), Absent(NoTrack), Absent(NoTrack), "absent">>,
      <<Corrupt(EmptyProg), Corrupt(NoTrack), Absent(NoTrack), "playing">>,
      <<Absent(EmptyProg), Absent(NoTrack), Corrupt(NoTrack), "absent">>,
      <<Absent(EmptyProg), Json(IncompleteTrack), Absent(NoTrack), "playing">> }

Init ==
    /\ InitHomeIdle
    /\ InitFavViewIdle
    /\ InitThemeIdle
    /\ lsFavs = Absent(<<>>)
    /\ now = 0
    /\ view = "home"
    /\ favsView = <<>>
    /\ favHist = NoHist
    /\ call = NoCall
    /\ lastOp = "init"
    /\ \E st \in StoredAtStart :
          /\ lsProg = st[1]
          /\ lsTrack = st[2]
          /\ ssTrack = st[3]
          /\ lsState = st[4]
    /\ mounted = FALSE
    /\ domReady \in BOOLEAN
    /\ nBound = 0
    /\ current = NoTrack
    /\ audioSrc = ""
    /\ audioPaused = TRUE
    /\ audioTime = 0
    /\ audioDur = 0
    /\ audioErr = FALSE
    /\ playBtn = PlayIcon
    /\ nowTitle = InitialTitle
    /\ nowSub = InitialSub
    /\ plays = <<>>
    /\ fetches = <<>>
    /\ hist = [cleared |-> FALSE, mine |-> NoTrack]
    /\ asked = NoTrack

Next ==
    \/ MountPlayer /\ UNCHANGED offPlayer
    \/ \E allowed \in BOOLEAN : TogglePlay(allowed) /\ UNCHANGED offPlayer
    \/ TogglePause /\ UNCHANGED offPlayer
    \/ ToggleNoSrc /\ UNCHANGED offPlayer
    \/ LoadedMetadata /\ UNCHANGED offPlayer
    \/ LoadFails /\ UNCHANGED offPlayer
    \/ PlayStarts /\ UNCHANGED offPlayer
    \/ TimeUpdate /\ UNCHANGED offPlayer
    \/ Ended /\ UNCHANGED offPlayer
    \/ UnloadStay /\ UNCHANGED offPlayer
    \/ Reload /\ UNCHANGED offPlayer
    \/ DomAppears /\ UNCHANGED offPlayer
    \/ \E r \in ShowRows, allowed \in BOOLEAN :
          ShowRowPlay(r, allowed) /\ UNCHANGED offPlayer
    \/ \E f \in PlayerFavs, allowed \in BOOLEAN :
          FavRowPlay(f, allowed) /\ UNCHANGED offPlayer
    \/ BarePlay /\ UNCHANGED offPlayer
    \/ \E i \in 1..Len(fetches) : FetchFails(i) /\ UNCHANGED offPlayer
    \/ \E i \in 1..Len(fetches) : FetchDrops(i) /\ UNCHANGED offPlayer
    \/ \E i \in 1..Len(fetches), allowed \in BOOLEAN :
          FetchPlays(i, allowed) /\ UNCHANGED offPlayer
    \/ ResetHistory /\ UNCHANGED offPlayer
    \/ \E track \in DirectTracks, st \in {"playing", "paused"} :
          OtherTabSetTrack(track, st) /\ UNCHANGED offPlayer

Spec == Init /\ [][Next]_vars

(***************************************************************************)
(* The views of one tab that reach the favourites store                    *)
(***************************************************************************)
Views == {"home", "show", "favourites"}

\* the rows of the model whose heart is clicked
FavRows == {r \in ShowRows : r[1] = "1" /\ r[2] = 1}

\* hash navigation: App.jsx swaps the page, whose effect renders the view;
\* renderFavourites starts with `let favs = loadFavs()`
Navigate(v) ==
    /\ v # view
    /\ view' = v
    /\ favsView' = IF v = "favourites" THEN loadFavs ELSE <<>>
    /\ favSort' = "newest"
    /\ favFilter' = AllShows
    /\ favGroups' = IF v = "favourites" THEN render(loadFavs, "newest", AllShows)
                    ELSE <<>>
    /\ lastOp' = "navigate"
    /\ UNCHANGED <<lsFavs, now, favHist>>

\* heart click on a carousel or grid card (renderCarousel / renderGrid)
HomeHeart(show) ==
    /\ view = "home"
    /\ DoToggle(HomeFavItem(show))
    /\ lastOp' = "homeHeart"
    /\ UNCHANGED <<now, view, favsView>>

\* heart click on an episode row (renderSeason)
ShowHeart(r) ==
    /\ view = "show"
    /\ DoToggle(ShowFavItem(r[1], RowSeason(r), RowEpisode(r)))
    /\ lastOp' = "showHeart"
    /\ UNCHANGED <<now, view, favsView>>

\* doRemove on row i of the Favourites view: toggleFav(f); favs = loadFavs();
\* refreshFilter() rebuilds the options, which selects "All Shows"; render()
FavRemove(i) ==
    /\ view = "favourites"
    /\ i \in 1..Len(favsView)
    /\ DoToggle(favsView[i])
    /\ favsView' = toggleFav(readFavs, favsView[i], now)
    /\ favFilter' = AllShows
    /\ favGroups' = render(favsView', favSort, AllShows)
    /\ lastOp' = "favRemove"
    /\ UNCHANGED <<now, view, favSort>>

\* the Clear favourites button, confirmed: clearFavs(); favs = []
FavClear ==
    /\ view = "favourites"
    /\ lsFavs' = clearFavs
    /\ favsView' = <<>>
    /\ favFilter' = AllShows
    /\ favGroups' = render(<<>>, favSort, AllShows)
    /\ favHist' = NoHist
    /\ lastOp' = "favClear"
    /\ UNCHANGED <<now, view, favSort>>

\* the user picks a sort mode: render()
SelectFavSort(mode) ==
    /\ view = "favourites"
    /\ mode # favSort
    /\ favSort' = mode
    /\ favGroups' = render(favsView, mode, favFilter)
    /\ lastOp' = "selectFavSort"
    /\ UNCHANGED <<lsFavs, now, view, favsView, favFilter, favHist>>

\* the user picks an option of the show filter, which lists "All Shows" and
\* the show titles of `favs`: render()
SelectFavFilter(sel) ==
    /\ view = "favourites"
    /\ sel # favFilter
    /\ sel = AllShows \/ \E k \in 1..Len(favsView) : favsView[k].showTitle = sel
    /\ favFilter' = sel
    /\ favGroups' = render(favsView, favSort, sel)
    /\ lastOp' = "selectFavFilter"
    /\ UNCHANGED <<lsFavs, now, view, favsView, favSort, favHist>>

\* time passes
Tick ==
    /\ now < MaxClock
    /\ now' = now + 1
    /\ lastOp' = "tick"
    /\ UNCHANGED <<lsFavs, view, favsView, favHist>>

\* another tab of the same origin clicks a Home heart: its toggleFav runs on
\* the shared localStorage record
OtherTabToggle(show) ==
    /\ lsFavs' = Json(toggleFav(readFavs, HomeFavItem(show), now))
    /\ favHist' = NoHist
    /\ lastOp' = "otherTabToggle"
    /\ UNCHANGED <<now, view, favsView>>

InitFav ==
    /\ InitHomeIdle
    /\ InitFavViewIdle
    /\ InitThemeIdle
    /\ lsFavs \in {Absent(<<>>), Corrupt(<<>>), Misshapen(<<>>), Json(<<>>)}
    /\ now = 0
    /\ view = "home"
    /\ favsView = <<>>
    /\ favHist = NoHist
    /\ call = NoCall
    /\ lastOp = "init"
    /\ InitStoreEmpty
    /\ InitPlayerIdle

NextFav ==
    \/ \E v \in Views : Navigate(v) /\ UNCHANGED offFav
    \/ \E show \in ShowIds : HomeHeart(show) /\ UNCHANGED <<offFav, favViewVars>>
    \/ \E r \in FavRows : ShowHeart(r) /\ UNCHANGED <<offFav, favViewVars>>
    \/ \E i \in 1..Len(favsView) : FavRemove(i) /\ UNCHANGED offFav
    \/ FavClear /\ UNCHANGED offFav
    \/ \E mode \in FavSorts : SelectFavSort(mode) /\ UNCHANGED offFav
    \/ \E sel \in {AllShows, "A", "B"} : SelectFavFilter(sel) /\ UNCHANGED offFav
    \/ Tick /\ UNCHANGED <<offFav, favViewVars>>
    \/ \E show \in ShowIds : OtherTabToggle(show) /\ UNCHANGED <<offFav, favViewVars>>

SpecFav == InitFav /\ [][NextFav]_vars

(***************************************************************************)
(* The progress tracker called directly, with any arguments                *)
(***************************************************************************)
\* the episode ids and duration arguments of the direct calls
ApiIds == {EpisodeId("1", 1, 1), EpisodeId("1", 2, 1)}
DurArgs == (0..MaxTime) \cup {NaNVal, UndefVal}

ApiSave(id, t, finished, duration) ==
    /\ lsProg' = saveProgress(id, t, finished, duration)
    /\ call' = [id |-> id, t |-> t, finished |-> finished, duration |-> duration]
    /\ lastOp' = "save"
    /\ UNCHANGED <<lsTrack, ssTrack, lsState>>

ApiMarkFinished(id, duration) ==
    /\ lsProg' = markFinished(id, duration)
    /\ call' = [id |-> id, t |-> 0, finished |-> TRUE, duration |-> duration]
    /\ lastOp' = "markFinished"
    /\ UNCHANGED <<lsTrack, ssTrack, lsState>>

ApiClearAll ==
    /\ clearAllProgress
    /\ call' = NoCall
    /\ lastOp' = "clearAll"

InitProg ==
    /\ InitHomeIdle
    /\ InitFavViewIdle
    /\ InitThemeIdle
    /\ lsFavs = Absent(<<>>)
    /\ now = 0
    /\ view = "home"
    /\ favsView = <<>>
    /\ favHist = NoHist
    /\ call = NoCall
    /\ lastOp = "init"
    /\ lsProg \in {Absent(EmptyProg), Corrupt(EmptyProg), Misshapen(EmptyProg),
                  ArrayValue(EmptyProg)}
    /\ lsTrack = Json([IncompleteTrack EXCEPT !.src = "u1"])
    /\ ssTrack = lsTrack
    /\ lsState = "playing"
    /\ InitPlayerIdle

NextProg ==
    \/ \E id \in ApiIds, t \in 0..MaxTime, finished \in BOOLEAN, duration \in DurArgs :
          ApiSave(id, t, finished, duration) /\ UNCHANGED offProg
    \/ \E id \in ApiIds, duration \in DurArgs :
          ApiMarkFinished(id, duration) /\ UNCHANGED offProg
    \/ ApiClearAll /\ UNCHANGED offProg

SpecProg == InitProg /\ [][NextProg]_vars

(***************************************************************************)
(* The Home view: the previews fetch, the filter and sort selects          *)
(***************************************************************************)
\* applyFilters: both lists rendered from the fetched items for genre g and
\* sort s
applyFilters(g, s) ==
    /\ carousel' = renderCards(slice(filtered(api, g, s)))
    /\ grid' = renderCards(filtered(api, g, s))

\* fetchPreviews resolves: renderHome binds the selects and applies the
\* filters, on the elements it captured when it was called
PreviewsArrive ==
    /\ homeFetch = "pending"
    /\ homeFetch' = "done"
    /\ applyFilters(genreSel, sortSel)
    /\ lastOp' = "previewsArrive"
    /\ UNCHANGED <<api, genreSel, sortSel, favVars>>

\* fetchPreviews rejects: the catch writes the alert into #grid
PreviewsFail ==
    /\ homeFetch = "pending"
    /\ homeFetch' = "failed"
    /\ grid' = Failed
    /\ lastOp' = "previewsFail"
    /\ UNCHANGED <<api, genreSel, sortSel, carousel, favVars>>

\* the user picks a genre; the change listener exists once the fetch resolved
SelectGenre(g) ==
    /\ view = "home"
    /\ g # genreSel
    /\ genreSel' = g
    /\ IF homeFetch = "done" THEN applyFilters(g, sortSel)
       ELSE UNCHANGED <<carousel, grid>>
    /\ lastOp' = "selectGenre"
    /\ UNCHANGED <<api, homeFetch, sortSel, favVars>>

\* the user picks a sort order
SelectSort(s) ==
    /\ view = "home"
    /\ s # sortSel
    /\ sortSel' = s
    /\ IF homeFetch = "done" THEN applyFilters(genreSel, s)
       ELSE UNCHANGED <<carousel, grid>>
    /\ lastOp' = "selectSort"
    /\ UNCHANGED <<api, homeFetch, genreSel, favVars>>

\* the hash changes and App swaps the page: the Home elements leave the
\* document; HomePage's effect has no cleanup and nothing aborts `ctrl`
HomeLeave ==
    /\ view = "home"
    /\ view' = "show"
    /\ lastOp' = "homeLeave"
    /\ UNCHANGED <<lsFavs, now, favsView, favHist, homeVars>>

\* the Home page is shown again and its effect calls renderHome on the new
\* elements (one renderHome call is in flight at a time in the model)
HomeEnter ==
    /\ view # "home"
    /\ homeFetch # "pending"
    /\ view' = "home"
    /\ homeFetch' = "pending"
    /\ genreSel' = AllGenres
    /\ sortSel' = "newest"
    /\ carousel' = Loading
    /\ grid' = Loading
    /\ lastOp' = "homeEnter"
    /\ UNCHANGED <<api, lsFavs, now, favsView, favHist>>

\* heart click on card i of the carousel: toggleFav, then the clicked heart
\* is set from isFaved
CarouselHeart(i) ==
    /\ view = "home"
    /\ i \in 1..Len(carousel.cards)
    /\ LET item == HomeFavItem(carousel.cards[i].id)
       IN  /\ DoToggle(item)
           /\ carousel' = [carousel EXCEPT !.cards[i].on =
                             isFavedIn(toggleFav(readFavs, item, now), item.id)]
    /\ lastOp' = "carouselHeart"
    /\ UNCHANGED <<now, view, favsView, api, homeFetch, genreSel, sortSel, grid>>

\* heart click on card i of the grid
GridHeart(i) ==
    /\ view = "home"
    /\ i \in 1..Len(grid.cards)
    /\ LET item == HomeFavItem(grid.cards[i].id)
       IN  /\ DoToggle(item)
           /\ grid' = [grid EXCEPT !.cards[i].on =
                         isFavedIn(toggleFav(readFavs, item, now), item.id)]
    /\ lastOp' = "gridHeart"
    /\ UNCHANGED <<now, view, favsView, api, homeFetch, genreSel, sortSel,
                   carousel>>

\* the genre options the user picks in the model: all, two genres that
\* previews carry, one that none carries
PickedGenres == {AllGenres, "1", "3", "9"}

\* the Home page just loaded: renderHome has shown the spinners and awaits
\* fetchPreviews
InitHomeLoading ==
    /\ InitFavViewIdle
    /\ InitThemeIdle
    /\ homeFetch = "pending"
    /\ genreSel = AllGenres
    /\ sortSel = "newest"
    /\ carousel = Loading
    /\ grid = Loading
    /\ view = "home"
    /\ now = 0
    /\ favsView = <<>>
    /\ favHist = NoHist
    /\ call = NoCall
    /\ lastOp = "init"
    /\ InitStoreEmpty
    /\ InitPlayerIdle

InitHome ==
    /\ api \in ApiAnswers
    /\ lsFavs \in {Absent(<<>>), Json(<<withAddedAt(HomeFavItem("1"), 0)>>)}
    /\ InitHomeLoading

NextHome ==
    \/ PreviewsArrive /\ UNCHANGED offHome
    \/ PreviewsFail /\ UNCHANGED offHome
    \/ \E g \in PickedGenres : SelectGenre(g) /\ UNCHANGED offHome
    \/ \E s \in {"newest", "oldest"} : SelectSort(s) /\ UNCHANGED offHome
    \/ HomeLeave /\ UNCHANGED offHome
    \/ HomeEnter /\ UNCHANGED offHome

SpecHome == InitHome /\ [][NextHome]_vars

(***************************************************************************)
(* The Home view: the hearts of the cards                                  *)
(***************************************************************************)
\* an answer with two shows, which the carousel and the grid both list
TwoShows ==
    <<[id |-> "1", updated |-> 2, genres |-> {3}],
      [id |-> "2", updated |-> 1, genres |-> {1, 3}]>>

InitHearts ==
    /\ api = TwoShows
    /\ lsFavs \in {Absent(<<>>), Json(<<withAddedAt(HomeFavItem("1"), 0)>>)}
    /\ InitHomeLoading

NextHearts ==
    \/ PreviewsArrive /\ UNCHANGED offHome
    \/ \E i \in 1..Len(carousel.cards) : CarouselHeart(i) /\ UNCHANGED offHome
    \/ \E i \in 1..Len(grid.cards) : GridHeart(i) /\ UNCHANGED offHome
    \/ \E s \in {"newest", "oldest"} : SelectSort(s) /\ UNCHANGED offHome
    \/ HomeLeave /\ UNCHANGED offHome
    \/ HomeEnter /\ UNCHANGED offHome

SpecHearts == InitHearts /\ [][NextHearts]_vars

(***************************************************************************)
(* A page opened on storage left in any condition                          *)
(***************************************************************************)
\* a last track as setTrack stores it
StoredTrack == [id |-> "1:1:1", title |-> "x", subtitle |-> "A", src |-> "u1"]

\* what either LAST_TRACK_KEY item may hold when the tab opens
TrackRecords ==
    {Absent(NoTrack), Corrupt(NoTrack), Misshapen(NoTrack),
     Json(IncompleteTrack), Json(NoIdTrack), Json(StoredTrack)}

\* a progress map with one entry
StoredProg ==
    Json([EmptyProg EXCEPT !["1:1:1"] =
             [has |-> TRUE, t |-> 1, finished |-> FALSE, duration |-> MaxTime]])

InitRead ==
    /\ InitHomeIdle
    /\ InitFavViewIdle
    /\ InitThemeIdle
    /\ lsFavs \in {Absent(<<>>), Corrupt(<<>>), Misshapen(<<>>),
                   Json(<<withAddedAt(HomeFavItem("1"), 0)>>)}
    /\ lsProg \in {Absent(EmptyProg), Corrupt(EmptyProg), Misshapen(EmptyProg),
                   ArrayValue(EmptyProg), StoredProg}
    /\ lsTrack \in TrackRecords
    /\ ssTrack \in TrackRecords
    /\ lsState \in {"absent", "playing"}
    /\ now = 0
    /\ view = "home"
    /\ favsView = <<>>
    /\ favHist = NoHist
    /\ call = NoCall
    /\ lastOp = "init"
    /\ mounted = FALSE
    /\ domReady \in BOOLEAN
    /\ nBound = 0
    /\ current = NoTrack
    /\ audioSrc = ""
    /\ audioPaused = TRUE
    /\ audioTime = 0
    /\ audioDur = 0
    /\ audioErr = FALSE
    /\ playBtn = PlayIcon
    /\ nowTitle = InitialTitle
    /\ nowSub = InitialSub
    /\ plays = <<>>
    /\ fetches = <<>>
    /\ hist = [cleared |-> FALSE, mine |-> NoTrack]
    /\ asked = NoTrack

NextRead ==
    \/ MountPlayer /\ UNCHANGED offPlayer
    \/ DomAppears /\ UNCHANGED offPlayer
    \/ Reload /\ UNCHANGED offPlayer
    \/ LoadFails /\ UNCHANGED offPlayer

SpecRead == InitRead /\ [][NextRead]_vars

(***************************************************************************)
(* Claims about the favourites store                                       *)
(***************************************************************************)
\* the items of `list` other than the one with this id, in order
Others(list, id) == SelectSeq(list, LAMBDA f : f.id # id)

\* C1 (as stated): calling toggle(item) twice in a row leaves the stored
\* favourites list equal to the list before the first call, whether the
\* item's id was absent or present before the first call.
C1_DoubleToggleRestores ==
    favHist.n = 2 => readFavs = favHist.before

\* C1 (amended): two toggles in a row restore the list when the id was absent;
\* when it was present the other items keep content and order and the passed
\* item (addedAt defaulted) is the last item of the list.
C1_DoubleToggle ==
    favHist.n = 2 =>
        IF ~isFavedIn(favHist.before, favHist.item.id)
        THEN readFavs = favHist.before
        ELSE /\ Len(readFavs) = Len(favHist.before)
             /\ Others(readFavs, favHist.item.id)
                    = Others(favHist.before, favHist.item.id)
             /\ LET last == readFavs[Len(readFavs)] IN
                /\ last.id = favHist.item.id
                /\ [last EXCEPT !.addedAt = UndefVal]
                      = [favHist.item EXCEPT !.addedAt = UndefVal]
                /\ IF favHist.item.addedAt = UndefVal
                   THEN last.addedAt \in 0..now
                   ELSE last.addedAt = favHist.item.addedAt

\* a second toggle of an item that was present, and not last, before the first
C1_Witness ==
    /\ favHist.n = 2
    /\ Len(favHist.before) >= 2
    /\ favHist.before[1].id = favHist.item.id

\* C3: no two items of the stored favourites list have the same id.
C3_UniqueIds ==
    \A i, j \in 1..Len(readFavs) :
        readFavs[i].id = readFavs[j].id => i = j

\* a toggle found its id in a list of several items and removed only it
C3_Witness ==
    /\ lastOp \in {"homeHeart", "showHeart", "favRemove"}
    /\ favHist.n >= 1
    /\ Len(favHist.before) = 3
    /\ Len(readFavs) = 2

(***************************************************************************)
(* Claims about the progress tracker                                       *)
(***************************************************************************)
\* the stored map has an entry for id / an entry marked finished
HasEntry(raw, id) == raw.kind = "json" /\ raw.val[id].has
FinishedIn(raw, id) == HasEntry(raw, id) /\ raw.val[id].finished

\* C2: once the stored entry of an id is finished, every later call of the
\* progress tracker other than clearAll leaves it finished, in particular
\* save(id, position, finished = false, duration).
C2_FinishedMonotonic ==
    [][\A id \in ProgIds :
          (FinishedIn(lsProg, id) /\ lastOp' # "clearAll")
             => FinishedIn(lsProg', id)]_vars

\* a save with finished = false on an entry that is finished
C2_Witness ==
    /\ lastOp = "save"
    /\ ~call.finished
    /\ FinishedIn(lsProg, call.id)

\* C10: except by clearAll, no step of the player or of the progress tracker
\* removes an id from the progress map.
C10_KeysNeverShrink ==
    [][\A id \in ProgIds :
          (HasEntry(lsProg, id) /\ lastOp' # "clearAll")
             => HasEntry(lsProg', id)]_vars

\* a periodic update of one track while another track has its entry
C10_Witness ==
    /\ lastOp = "timeupdate"
    /\ \A id \in ApiIds : HasEntry(lsProg, id)
    /\ \E id \in ApiIds : FinishedIn(lsProg, id)

(***************************************************************************)
(* Claims about the player                                                 *)
(***************************************************************************)
\* the step is a call of mountPlayer on a page where it has not run and whose
\* player elements are present
FreshMount == lastOp' = "mount" /\ ~mounted /\ domReady

\* C4: after clearAll, and with no track switch since, the next mount of a
\* fresh player restores no track and leaves "No episode selected", whatever
\* timeupdate, the play/pause toggle and beforeunload wrote in between.
C4_ClearForgetsTrack ==
    [][(FreshMount /\ hist.cleared)
          => /\ current' = NoTrack
             /\ audioSrc' = ""
             /\ nowTitle' = InitialTitle
             /\ plays' = <<>>]_vars

\* a mount after a reset that ran while a track played: progress and the
\* playback state were written again after the reset, and nothing is restored
C4_Witness ==
    /\ lastOp = "mount"
    /\ nBound = 1
    /\ hist.cleared
    /\ \E id \in ProgIds : HasEntry(lsProg, id)
    /\ lsState = "playing"
    /\ current = NoTrack
    /\ nowTitle = InitialTitle

\* C5: a call of mountPlayer on a page where it already ran changes nothing
\* of the player or the storage, and the listeners are bound at most once.
C5_RemountNoOp ==
    /\ [](nBound <= 1)
    /\ [][(lastOp' = "mount" /\ mounted)
             => UNCHANGED <<storeVars, pageVars, current, audioVars, uiVars,
                            plays, fetches>>]_vars

\* a page mounts again while a track plays
C5_Witness ==
    /\ lastOp = "mount"
    /\ nBound = 1
    /\ Playing
    /\ playBtn = PauseIcon

\* C6: a fresh mount with a stored last track (id and src) loads that track
\* at the position the progress tracker gives; a resume is attempted only if
\* the stored state is "playing"; a resume that succeeds leaves the player
\* playing, one that is rejected leaves it not playing with the play icon
\* shown and the track kept; the listeners are bound in every case.
C6_MountRestores ==
    /\ [][(FreshMount /\ Restorable(RawTrack))
             => /\ current' = RawTrack.val
                /\ audioSrc' = RawTrack.val.src
                /\ audioTime' = loadProgress(RawTrack.val.id)
                /\ nBound' = 1
                /\ (plays' # <<>> => lsState = "playing")
                /\ (plays' = <<>> => (audioPaused' /\ playBtn' = PlayIcon))]_vars
    /\ [][lastOp' = "started:mount"
             => (Playing' /\ playBtn' = PauseIcon /\ current' = current)]_vars
    /\ [][lastOp' = "failed:mount"
             => /\ ~Playing'
                /\ playBtn' = PlayIcon
                /\ current' = current
                /\ audioSrc' = audioSrc
                /\ nBound' = 1]_vars

\* a resume on mount, from a saved position, that the browser rejected
C6_Witness ==
    /\ lastOp = "failed:mount"
    /\ current # NoTrack
    /\ audioTime > 0
    /\ playBtn = PlayIcon
    /\ nBound = 1

\* C7: a track switch writes the same record to both stores, and a fresh
\* mount restores the track this tab switched to last, whatever another tab
\* wrote to the durable store since.
C7_SessionCopyWins ==
    /\ [][current' # current /\ lastOp' \notin {"mount", "reload", "reload:prompt"}
             => (ssTrack' = Json(current') /\ lsTrack' = Json(current'))]_vars
    /\ [][(FreshMount /\ hist.mine # NoTrack) => current' = hist.mine]_vars

\* a mount that restored this tab's track while the durable store held the
\* track of another tab
C7_Witness ==
    /\ lastOp = "mount"
    /\ nBound = 1
    /\ current # NoTrack
    /\ current = hist.mine
    /\ lsTrack.kind = "json"
    /\ lsTrack.val # current

\* the show has no first season, no first episode, or a first episode with no
\* audio URL
NoFirstAudio(show) ==
    \/ Len(show.seasons) = 0
    \/ Len(show.seasons[1].episodes) = 0
    \/ show.seasons[1].episodes[1].file = ""

\* the step settles pending fetch i
Settles(i) ==
    /\ i <= Len(fetches)
    /\ fetches' = splice1(fetches, i)
    /\ lastOp' \in {"fetchFails", "fetchDrops", "fetchPlays"}

\* the step is the click on an episode row that has no audio URL
ClicksSilentRow ==
    \E r \in ShowRows : lastOp' = RowOp(r) /\ RowEpisode(r).file = ""

\* C8: a play request that resolves to no audio URL leaves the track, the
\* audio element, the displayed title and subtitle, the play button and the
\* LastTrack, PlaybackState and progress records unchanged.
C8_DroppedRequest ==
    [][(\/ lastOp' = "fetchFails"
        \/ \E i \in 1..MaxPending :
              Settles(i) /\ NoFirstAudio(Catalog[fetches[i]])
        \/ lastOp' = "barePlay"
        \/ ClicksSilentRow)
          => UNCHANGED <<current, audioVars, uiVars, lsTrack, ssTrack, lsState,
                         lsProg, plays>>]_vars

\* a show-id request dropped while a track plays
C8_Witness ==
    /\ lastOp = "fetchDrops"
    /\ Playing
    /\ current # NoTrack

\* C9: Play on the row of episode e of season s of a show, the episode having
\* an audio URL, leaves the controller with track id "<showId>:<s>:<e>" and
\* that URL as src, and the persisted LastTrack with the same id and src.
C9_ShowRowPlays ==
    \A r \in ShowRows :
        (lastOp = RowOp(r) /\ RowEpisode(r).file # "")
           => /\ current.id = r[1] \o ":" \o ToString(RowSeason(r).season)
                                  \o ":" \o ToString(RowEpisode(r).episode)
              /\ current.src = RowEpisode(r).file
              /\ audioSrc = current.src
              /\ lsTrack.kind = "json"
              /\ lsTrack.val.id = current.id
              /\ lsTrack.val.src = current.src
              /\ ssTrack = lsTrack

\* Play on the only episode of season 2 of show 1
C9_Witness ==
    /\ lastOp = RowOp(<<"1", 2, 1>>)
    /\ current.id = "1:2:1"
    /\ current.src = "u2"

\* the position markFinished records for an entry that is new or has none
KeptPosition(id, duration) ==
    IF HasEntry(lsProg, id) /\ lsProg.val[id].t \notin {UndefVal, NullVal}
    THEN lsProg.val[id].t
    ELSE duration

\* C11: a periodic position update writes the current position, changes the
\* finished flag of no entry, and in the player an entry becomes finished
\* only by the ended event of the current track; that event marks the
\* current track's entry finished, at the position recorded before (the
\* duration if none was), and leaves the player paused with PlaybackState
\* "paused".
C11_FinishedOnlyByEnd ==
    /\ [][lastOp' = "timeupdate"
             => /\ HasEntry(lsProg', current.id)
                /\ lsProg'.val[current.id].t = audioTime'
                /\ \A id \in ProgIds :
                      FinishedIn(lsProg', id) <=> FinishedIn(lsProg, id)]_vars
    /\ [][\A id \in ProgIds :
             (~FinishedIn(lsProg, id) /\ FinishedIn(lsProg', id))
                => (lastOp' = "ended" /\ id = current.id)]_vars
    /\ [][lastOp' = "ended"
             => /\ FinishedIn(lsProg', current.id)
                /\ lsProg'.val[current.id].t = KeptPosition(current.id, audioDur)
                /\ audioPaused'
                /\ ~Playing'
                /\ lsState' = "paused"
                /\ \A id \in ProgIds \ {current.id} :
                      HasEntry(lsProg', id) <=> HasEntry(lsProg, id)]_vars

\* the media of a track ended after a reset had removed its entry: the entry
\* is finished at the duration
C11_Witness ==
    /\ lastOp = "ended"
    /\ hist.cleared
    /\ FinishedIn(lsProg, current.id)
    /\ lsProg.val[current.id].t = audioDur
    /\ audioPaused
    /\ lsState = "paused"

\* the step runs the beforeunload handler, and whether it asked for the prompt
Unloads == nBound > 0 /\ lastOp' \in {"unloadStay", "reload", "reload:prompt"}
Prompted == lastOp' \in {"unloadStay", "reload:prompt"}

\* C12: the beforeunload handler stores PlaybackState "playing" and asks for
\* the confirmation prompt if the audio is playing, stores "paused" and asks
\* for no prompt if it is paused (a player with no track included), and
\* writes no other record.
C12_UnloadPersistsState ==
    [][Unloads
          => /\ ~audioPaused => (lsState' = "playing" /\ Prompted)
             /\ audioPaused => (lsState' = "paused" /\ ~Prompted)
             /\ UNCHANGED <<lsProg, lsTrack, ssTrack, lsFavs>>]_vars

\* a page that never had a track is left: "paused" is stored, nothing else
C12_Witness ==
    /\ lastOp = "reload"
    /\ lsState = "paused"
    /\ lsTrack.kind = "absent"
    /\ ssTrack.kind = "absent"
    /\ lsProg.kind = "absent"
    /\ hist.mine = NoTrack
    /\ ~hist.cleared

(***************************************************************************)
(* Claims about the Home view                                              *)
(***************************************************************************)
\* C13 (as stated): when the Home view goes away its previews fetch is
\* cancelled, so no fetch of a view that is gone is in flight, and no content
\* and no error message is rendered for a view that is gone.
C13_CancelledOnLeave ==
    /\ [](view # "home" => homeFetch # "pending")
    /\ [][(view # "home" /\ view' # "home") => UNCHANGED <<carousel, grid>>]_vars

(***************************************************************************)
(* Claims about reading what is stored                                     *)
(***************************************************************************)
\* the record is missing, unparsable, misshapen or lacks id or src
Unusable(raw) == raw.kind # "json" \/ raw.val.id = "" \/ raw.val.src = ""

\* C14: a stored record that is missing, unparsable or of the wrong shape
\* reads as the safe default: the favourites read gives the empty list, the
\* progress read the empty map (load gives 0 and get gives null for every
\* id), and a fresh mount whose LastTrack is missing, unparsable, misshapen
\* or lacks id or src restores no track, shows no error and binds the
\* player's handlers.
C14_ReadsTolerate ==
    /\ [](lsFavs.kind # "json" => loadFavs = <<>>)
    /\ [](lsProg.kind # "json"
            => \A id \in ProgIds : loadProgress(id) = 0 /\ getProgress(id) = NoEntry)
    /\ [][(FreshMount /\ Unusable(RawTrack))
             => /\ current' = NoTrack
                /\ audioSrc' = ""
                /\ audioPaused'
                /\ ~audioErr'
                /\ plays' = <<>>
                /\ nowTitle' = InitialTitle
                /\ nowSub' = InitialSub
                /\ playBtn' = PlayIcon
                /\ nBound' = 1
                /\ UNCHANGED <<storeVars, lsFavs>>]_vars

\* a mount that found a session last track without id (over a durable one
\* that is complete), a progress record and a favourites record of the wrong
\* shape, and bound the handlers
C14_Witness ==
    /\ lastOp = "mount"
    /\ nBound = 1
    /\ ssTrack = Json(NoIdTrack)
    /\ lsTrack = Json(StoredTrack)
    /\ lsProg.kind = "array"
    /\ lsFavs.kind = "misshapen"
    /\ lsState = "playing"
    /\ current = NoTrack

\* the previews of the answer that carry the selected genre, and the
\* timestamp of the preview with a given id
Matching ==
    {i \in 1..Len(api) :
        genreSel = AllGenres
        \/ \E n \in api[i].genres : ToString(n) = genreSel}
Stamp(id) == api[CHOOSE i \in 1..Len(api) : api[i].id = id].updated

\* C15: once the previews are loaded the grid lists exactly the previews
\* that carry the selected genre (all of them for "All Genres"), each once,
\* by timestamp ascending for "oldest" and descending for "newest"; a genre
\* no preview carries gives the empty list and no error.
C15_GridFilteredSorted ==
    homeFetch = "done"
       => /\ grid.status = "list"
          /\ Len(grid.cards) = Cardinality(Matching)
          /\ \A i \in Matching : \E k \in 1..Len(grid.cards) :
                grid.cards[k].id = api[i].id
          /\ \A k \in 1..(Len(grid.cards) - 1) :
                IF sortSel = "oldest"
                THEN Stamp(grid.cards[k].id) <= Stamp(grid.cards[k + 1].id)
                ELSE Stamp(grid.cards[k].id) >= Stamp(grid.cards[k + 1].id)

\* genre 3 and "oldest" selected, on an answer whose first preview is the
\* newer of two that carry genre 3 and differ in the rest: the grid lists
\* the second before the first
C15_Witness ==
    /\ homeFetch = "done"
    /\ genreSel = "3"
    /\ sortSel = "oldest"
    /\ Len(api) = MaxPreviews
    /\ api[1].updated > api[2].updated
    /\ api[1].genres # api[2].genres
    /\ Len(grid.cards) = 2
    /\ grid.cards[1].id = api[2].id

(***************************************************************************)
(* Claims about the Favourites view                                        *)
(***************************************************************************)
\* the favourites the view holds that pass the show filter, and the one with
\* a given id (ids are unique in what the view holds)
Shown == {k \in 1..Len(favsView) :
             favFilter = AllShows \/ favsView[k].showTitle = favFilter}
FavOf(id) == favsView[CHOOSE k \in 1..Len(favsView) : favsView[k].id = id]

\* a goes before b, or ties with it, in the active sort mode
InSortOrder(a, b) ==
    CASE favSort = "oldest" -> a.addedAt <= b.addedAt
      [] favSort = "az" -> TitleRank(a.title) <= TitleRank(b.title)
      [] favSort = "za" -> TitleRank(a.title) >= TitleRank(b.title)
      [] OTHER -> a.addedAt >= b.addedAt

\* C16: on the Favourites view the rendered groups partition the filtered
\* favourites by show title: one group per distinct showTitle, each
\* favourite in the group of its showTitle and in no other, the displayed
\* count of a group the number of favourites with its showTitle, and the
\* items of a group in the order of the active sort mode.
C16_GroupsPartition ==
    view = "favourites"
       => /\ \A k \in Shown : \E g \in 1..Len(favGroups) :
                favGroups[g].showTitle = favsView[k].showTitle
          /\ \A g, h \in 1..Len(favGroups) :
                favGroups[g].showTitle = favGroups[h].showTitle => g = h
          /\ \A g \in 1..Len(favGroups) :
                LET grp == favGroups[g]
                    members == {k \in Shown : favsView[k].showTitle = grp.showTitle}
                IN  /\ grp.count = Cardinality(members)
                    /\ grp.count > 0
                    /\ Len(grp.items) = grp.count
                    /\ {grp.items[j] : j \in 1..Len(grp.items)}
                          = {favsView[k].id : k \in members}
                    /\ \A j \in 1..(Len(grp.items) - 1) :
                          InSortOrder(FavOf(grp.items[j]), FavOf(grp.items[j + 1]))

\* two favourites of show A and one of show B, stored with B between them,
\* sorted by title descending: group A comes first and counts 2, group B 1
C16_Witness ==
    /\ view = "favourites"
    /\ favSort = "za"
    /\ favFilter = AllShows
    /\ Len(favsView) = 3
    /\ favsView[1].showTitle = "A"
    /\ favsView[2].showTitle = "B"
    /\ favsView[3].showTitle = "A"
    /\ Len(favGroups) = 2
    /\ favGroups[1].showTitle = "A"
    /\ favGroups[1].count = 2
    /\ favGroups[2].count = 1

\* C17 (as stated): on the Home view every heart a show's cards display, in
\* the carousel and in the grid, is "on" exactly when the stored favourites
\* hold "show:<id>".
C17_HeartsReflectStore ==
    (view = "home" /\ homeFetch = "done")
       => /\ \A i \in 1..Len(carousel.cards) :
                carousel.cards[i].on <=> isFaved(ShowFavId(carousel.cards[i].id))
          /\ \A i \in 1..Len(grid.cards) :
                grid.cards[i].on <=> isFaved(ShowFavId(grid.cards[i].id))

(***************************************************************************)
(* Claims about the progress reset                                         *)
(***************************************************************************)
\* C18 (as stated): after the reset of the Favourites view, and until a
\* track switch, the progress map has no entry and neither store holds a
\* LastTrack record.
C18_ResetForgetsTrack ==
    hist.cleared
       => /\ \A id \in ProgIds : ~HasEntry(lsProg, id)
          /\ lsTrack.kind = "absent"
          /\ ssTrack.kind = "absent"

\* an episode id that is never saved
UnknownId == "9:9:9"

\* C19: for every episode id without an entry in the stored progress map,
\* load(id) gives 0 and get(id) gives null.
C19_UnknownReadsDefault ==
    /\ \A id \in ProgIds :
          ~HasEntry(lsProg, id)
             => (loadProgress(id) = 0 /\ getProgress(id) = NoEntry)
    /\ loadProgress(UnknownId) = 0
    /\ getProgress(UnknownId) = NoEntry

\* a map that holds an entry for one id and none for another, after a save;
\* and before that save a clearAll had emptied it
C19_Witness ==
    /\ lastOp = "save"
    /\ HasEntry(lsProg, "1:1:1")
    /\ lsProg.val["1:1:1"].t > 0
    /\ ~HasEntry(lsProg, "1:2:1")
    /\ loadProgress("1:2:1") = 0

(***************************************************************************)
(* The theme: page mounts, clicks on the button, reloads                   *)
(***************************************************************************)
MaxMounts == 3
MaxClicks == 3

\* initTheme(), called by the effect of every page; the button is part of
\* PlayerShell, so it is in the document whenever a page mounts
initTheme ==
    /\ dark' = setTheme(saved).dark
    /\ lsTheme' = setTheme(saved).stored
    /\ themeText' = setTheme(saved).text
    /\ themeListeners' = IF ThemeBound THEN themeListeners
                                       ELSE themeListeners + 1
    /\ themeBound' = TRUE

\* a page mounts: the first one after the load, a navigation, or the second
\* run of the effect under StrictMode
OpenPage(v) ==
    /\ themeHist.mounts < MaxMounts
    /\ view' = v
    /\ initTheme
    /\ themeHist' = [themeHist EXCEPT !.mounts = @ + 1]
    /\ lastOp' = "initTheme"

\* the user clicks #themeToggle
ThemeClick ==
    /\ themeHist.clicks < MaxClicks
    /\ LET st == dispatchClick(themeListeners,
                               [dark |-> dark, stored |-> lsTheme,
                                text |-> themeText])
       IN  /\ dark' = st.dark
           /\ lsTheme' = st.stored
           /\ themeText' = st.text
    /\ themeHist' = [themeHist EXCEPT
                       !.clicks = IF themeHist.mounts > 0 THEN @ + 1 ELSE @]
    /\ lastOp' = "themeClick"
    /\ UNCHANGED <<view, themeBound, themeListeners>>

\* the page is loaded again: a new document, the storage as it was
ThemeReload ==
    /\ themeHist.mounts > 0
    /\ dark' = FALSE
    /\ themeText' = ToDark
    /\ themeBound' = FALSE
    /\ themeListeners' = 0
    /\ themeHist' = [atLoad |-> lsTheme, mounts |-> 0, clicks |-> 0]
    /\ lastOp' = "themeLoad"
    /\ UNCHANGED <<view, lsTheme>>

InitTheme ==
    /\ InitHomeIdle
    /\ InitFavViewIdle
    /\ InitStoreEmpty
    /\ InitPlayerIdle
    /\ lsFavs = Absent(<<>>)
    /\ now = 0
    /\ view \in Views
    /\ favsView = <<>>
    /\ favHist = NoHist
    /\ call = NoCall
    /\ lsTheme \in {NoItem, "light", "dark"}
    /\ FreshDocument
    /\ themeHist = [atLoad |-> lsTheme, mounts |-> 0, clicks |-> 0]
    /\ lastOp = "themeLoad"

NextTheme ==
    \/ \E v \in Views : OpenPage(v) /\ UNCHANGED offTheme
    \/ ThemeClick /\ UNCHANGED offTheme
    \/ ThemeReload /\ UNCHANGED offTheme

SpecTheme == InitTheme /\ [][NextTheme]_vars

(***************************************************************************)
(* Claims about the theme                                                  *)
(***************************************************************************)
\* the theme the page shows
Displayed == IF dark THEN "dark" ELSE "light"

Other(mode) == IF mode = "dark" THEN "light" ELSE "dark"

\* a theme flipped n times
RECURSIVE Flipped(_, _)
Flipped(mode, n) == IF n = 0 THEN mode ELSE Flipped(Other(mode), n - 1)

\* the theme persisted when the page was loaded, light if there was none
Restored == IF themeHist.atLoad = NoItem THEN "light" ELSE themeHist.atLoad

\* C20: the button carries at most one click listener, and once a page has
\* mounted the persisted theme is the displayed one, which is the theme
\* persisted at the load of the page flipped once for every click since.
C20_ThemePersistedAndFlipped ==
    /\ themeListeners <= 1
    /\ themeHist.mounts > 0
          => /\ themeListeners = 1
             /\ lsTheme = Displayed
             /\ Displayed = Flipped(Restored, themeHist.clicks)
             /\ themeText = (IF dark THEN ToLight ELSE ToDark)

\* dark was persisted, the page was loaded again, pages have mounted more
\* than once and the button was clicked once since: the page shows light
C20_Witness ==
    /\ themeHist.atLoad = "dark"
    /\ themeHist.mounts > 1
    /\ themeHist.clicks = 1
    /\ lastOp = "themeClick"
    /\ Displayed = "light"
    /\ lsTheme = "light"

(***************************************************************************)
(* Claims about the stored duration and its display                        *)
(***************************************************************************)
\* a duration that is a valid number
ValidNumber(x) == x >= 0

\* C21 (as stated): a save whose duration is not a valid number (absent or
\* NaN) leaves the stored duration of the entry as it was, and a save with a
\* valid duration stores it.
C21_DurationKept ==
    [][(lastOp' = "save" /\ lsProg.kind # "array")
          => LET id == call'.id
                 d == call'.duration
             IN  IF ValidNumber(d)
                 THEN lsProg'.val[id].duration = d
                 ELSE (HasEntry(lsProg, id)
                          /\ ValidNumber(lsProg.val[id].duration))
                         => lsProg'.val[id].duration
                               = lsProg.val[id].duration]_vars

\* min(max(x, 0), Percent)
Clamped(x) == IF x < 0 THEN 0 ELSE IF x > Percent THEN Percent ELSE x

\* C22 (as stated): the pill of an unfinished entry with a valid position
\* shows round(position / duration * 100) clamped to [0, 100] when the
\* duration is a positive number, and the plain label otherwise.
C22_PillShowsClampedPercent ==
    \A id \in ProgIds :
       (HasEntry(lsProg, id) /\ ~lsProg.val[id].finished
           /\ ValidNumber(lsProg.val[id].t))
          => LET p == lsProg.val[id] IN
             IF p.duration > 0
             THEN renderProgressPill(id)
                     = PctPill(Clamped(round(p.t * Percent, p.duration)))
             ELSE renderProgressPill(id) = PlainPill

(***************************************************************************)
(* The skip buttons of the player                                          *)
(***************************************************************************)
\* the seconds one click skips, and the furthest position the model follows
Skip == 10
MaxSeek == 20

\* click on #back10: audio.currentTime = Math.max(0, audio.currentTime - 10)
SkipBack ==
    /\ nBound > 0
    /\ audioTime' = IF audioTime - Skip > 0 THEN audioTime - Skip ELSE 0
    /\ lastOp' = "back10"
    /\ UNCHANGED <<storeVars, pageVars, current, audioSrc, audioPaused,
                   audioDur, audioErr, uiVars, plays, fetches, hist>>

\* click on #fwd10: audio.currentTime =
\*   Math.min(audio.duration || audio.currentTime + 10, audio.currentTime + 10);
\* a duration that is NaN or 0 is falsy.  Before the metadata is known the
\* element keeps the position asked for as its start position.
SkipFwd ==
    /\ nBound > 0
    /\ audioTime + Skip <= MaxSeek
    /\ LET limit == IF audioDur # 0 THEN audioDur ELSE audioTime + Skip
       IN  audioTime' = IF limit < audioTime + Skip THEN limit
                        ELSE audioTime + Skip
    /\ lastOp' = "fwd10"
    /\ UNCHANGED <<storeVars, pageVars, current, audioSrc, audioPaused,
                   audioDur, audioErr, uiVars, plays, fetches, hist>>

\* a tab opened with or without a last track, its player elements present
InitSkip ==
    /\ InitHomeIdle
    /\ InitFavViewIdle
    /\ InitThemeIdle
    /\ InitPlayerIdle
    /\ lsFavs = Absent(<<>>)
    /\ now = 0
    /\ view = "home"
    /\ favsView = <<>>
    /\ favHist = NoHist
    /\ call = NoCall
    /\ lastOp = "init"
    /\ lsProg \in {Absent(EmptyProg), StoredProg}
    /\ lsTrack \in {Absent(NoTrack), Json(StoredTrack)}
    /\ ssTrack = lsTrack
    /\ lsState \in {"paused", "playing"}

NextSkip ==
    \/ MountPlayer /\ UNCHANGED offPlayer
    \/ \E allowed \in BOOLEAN : TogglePlay(allowed) /\ UNCHANGED offPlayer
    \/ TogglePause /\ UNCHANGED offPlayer
    \/ LoadedMetadata /\ UNCHANGED offPlayer
    \/ PlayStarts /\ UNCHANGED offPlayer
    \/ TimeUpdate /\ UNCHANGED offPlayer
    \/ Ended /\ UNCHANGED offPlayer
    \/ SkipBack /\ UNCHANGED offPlayer
    \/ SkipFwd /\ UNCHANGED offPlayer

SpecSkip == InitSkip /\ [][NextSkip]_vars

\* C23 (as stated): after a skip, back or forward, the position asked for
\* lies in [0, duration], also while the duration is unknown or 0 (audioDur
\* is 0 then).
C23_SkipWithinDuration ==
    lastOp \in {"back10", "fwd10"}
       => (audioTime >= 0 /\ audioTime <= audioDur)

(***************************************************************************)
(* Claims about the player's tracks and playback state                     *)
(***************************************************************************)
\* the names of the clicks on Play buttons
PlayOps ==
    {RowOp(r) : r \in ShowRows} \cup {"fav:" \o f.showId : f \in PlayerFavs}
       \cup {"fetchPlays"}

\* a mount, a toggle, a track switch or a natural end, and the settling of
\* the play() calls they made
StateOps ==
    PlayOps \cup {"mount", "togglePlay", "togglePause", "ended"}
       \cup {x \o by : x \in {"started:", "failed:"},
                       by \in {"mount", "toggle", "setTrack"}}

\* C24 (as stated): with a track in the player and no play() call pending,
\* after a mount, a toggle, a track switch or a natural end the stored
\* PlaybackState is "playing" exactly when the audio element is playing (not
\* paused, its source not failed).
C24_StateMatchesAudio ==
    (nBound > 0 /\ current # NoTrack /\ plays = <<>> /\ lastOp \in StateOps)
       => ((lsState = "playing") <=> (~audioPaused /\ ~audioErr))

(***************************************************************************)
(* Play requests that overlap: clicks on rows with an audio URL and on     *)
(* rows that need a show fetch                                             *)
(***************************************************************************)
\* the track a click on a button with dataset ds asks for: the one built from
\* the button, or the first episode of the show to fetch
Asked(ds) ==
    IF ds.audioUrl # "" THEN DirectTrack(ds)
    ELSE IF ds.showId # "" THEN ShowTrack(Catalog[ds.showId])
    ELSE asked

RaceRowPlay(r, allowed) ==
    /\ ShowRowPlay(r, allowed)
    /\ asked' = Asked(EpisodeRowDataset(Catalog[r[1]], RowSeason(r), RowEpisode(r)))

RaceFavPlay(f, allowed) ==
    /\ FavRowPlay(f, allowed)
    /\ asked' = Asked(FavRowDataset(f))

InitRace ==
    /\ InitHomeIdle
    /\ InitFavViewIdle
    /\ InitThemeIdle
    /\ InitStoreEmpty
    /\ InitPlayerIdle
    /\ lsFavs = Absent(<<>>)
    /\ now = 0
    /\ view = "home"
    /\ favsView = <<>>
    /\ favHist = NoHist
    /\ call = NoCall
    /\ lastOp = "init"

NextRace ==
    \/ MountPlayer /\ UNCHANGED offPlayer
    \/ \E r \in ShowRows, allowed \in BOOLEAN :
          RaceRowPlay(r, allowed) /\ UNCHANGED offViews
    \/ \E f \in PlayerFavs, allowed \in BOOLEAN :
          RaceFavPlay(f, allowed) /\ UNCHANGED offViews
    \/ \E i \in 1..Len(fetches) : FetchFails(i) /\ UNCHANGED offPlayer
    \/ \E i \in 1..Len(fetches) : FetchDrops(i) /\ UNCHANGED offPlayer
    \/ \E i \in 1..Len(fetches), allowed \in BOOLEAN :
          FetchPlays(i, allowed) /\ UNCHANGED offPlayer
    \/ LoadedMetadata /\ UNCHANGED offPlayer
    \/ PlayStarts /\ UNCHANGED offPlayer

SpecRace == InitRace /\ [][NextRace]_vars

\* C25 (as stated): once a show fetch has led to a track switch and nothing
\* is pending any more, the current track, the audio source and the stored
\* LastTrack are those of the play request issued last.
C25_LastRequestWins ==
    (lastOp \in {"fetchPlays", "started:setTrack"} /\ asked # NoTrack
        /\ fetches = <<>> /\ plays = <<>>)
       => /\ current = asked
          /\ audioSrc = asked.src
          /\ lsTrack = Json(asked)

\* C26 (as stated): after a call of mountPlayer made while the core player
\* elements are in the document, the player's handlers are bound.
C26_MountBindsWhenReady ==
    (lastOp = "mount" /\ domReady) => nBound > 0

\* C27: while the player is mounted the controller's track is the one whose
\* src the audio element holds (or there is neither), and after a timeupdate
\* or an ended event the entry of that track's id carries what the event
\* wrote: the position of the audio element, or the finished flag.
C27_WritesUnderLoadedTrack ==
    /\ nBound > 0 => current.src = audioSrc
    /\ lastOp \in {"timeupdate", "ended"}
          => /\ current # NoTrack
             /\ HasEntry(lsProg, current.id)
             /\ lastOp = "timeupdate" => lsProg.val[current.id].t = audioTime
             /\ lastOp = "ended" => FinishedIn(lsProg, current.id)

\* the first episode of show 1 is the track this tab switched to last and
\* has just written its position, while another episode has an entry too
C27_Witness ==
    /\ lastOp = "timeupdate"
    /\ current = ShowTrack(Catalog["1"])
    /\ hist.mine = current
    /\ audioSrc = "u1"
    /\ HasEntry(lsProg, "1:2:1")
    /\ lsProg.val["1:1:1"].t = audioTime

(***************************************************************************)
(* Claims about Remove in the Favourites view                              *)
(***************************************************************************)
\* the id of the row Remove was activated on last
RemovedId == favHist.item.id

\* C28 (as stated): after Remove (or the heart) on a row of the Favourites
\* view the row's id is not in the stored list.
C28_RemoveNeverAdds ==
    lastOp = "favRemove" => ~isFaved(RemovedId)

\* C28 (amended): Remove on a row of the Favourites view toggles the row's id
\* in the stored list: the id is in the list afterwards exactly when it was
\* not in it before, which is so when another tab removed it since the view
\* loaded its list.
C28_RemoveToggles ==
    [][lastOp' = "favRemove"
          => (isFavedIn(readFavs', RemovedId')
                 <=> ~isFavedIn(readFavs, RemovedId'))]_vars

\* Remove on a row whose id another tab had removed has added the item again
C28_Witness ==
    /\ lastOp = "favRemove"
    /\ view = "favourites"
    /\ isFaved(RemovedId)
    /\ isFavedIn(favsView, RemovedId)

(***************************************************************************)
(* Claims about the loading state of the Home view                         *)
(***************************************************************************)
\* C29 (as stated): once the preview fetch of the Home view has settled,
\* neither the carousel nor the grid shows the loading indicator.
C29_NoSpinnerAfterSettle ==
    homeFetch \in {"done", "failed"}
       => (carousel # Loading /\ grid # Loading)

(***************************************************************************)
(* Claims about replaying a finished episode                               *)
(***************************************************************************)
\* the clicks and the fetch answer that can switch the track
SwitchOps == {RowOp(r) : r \in ShowRows} \cup {"fetchPlays"}

\* C30 (as stated): right after this tab switched to a track whose progress
\* entry is marked finished, the position asked of the audio element is 0.
C30_FinishedReplaysFromStart ==
    (lastOp \in SwitchOps /\ current # NoTrack /\ hist.mine = current
        /\ audioDur = 0 /\ ~audioErr /\ FinishedIn(lsProg, current.id))
       => audioTime = 0

====
